---- MODULE Spec2Model ----
(***************************************************************************)
(* The view catalog of structurizr (ViewSet, src/structurizr/view/         *)
(* view_set.py): the create_<type>_view factories, the key lookups, and    *)
(* ViewSet.hydrate, which rebuilds a ViewSet from a ViewSetIO document     *)
(* against a Model.                                                        *)
(*                                                                         *)
(* Python objects with identity (views) live in `heap`; a reference to a   *)
(* view is its index in `heap`.  A Python dict is a sequence of            *)
(* [key, view] entries with distinct keys, in insertion order.             *)
(***************************************************************************)
EXTENDS Integers, Sequences, FiniteSets, TLC

VARIABLES
    model,      \* the Model of the workspace: elements and relationships
    heap,       \* the live view objects, by reference
    _views,     \* ViewSet._views of the authored ViewSet
    last,       \* the most recent call on the authored ViewSet and its outcome
    returned,   \* number of create_<type>_view calls that returned normally
    doc,        \* the ViewSetIO document ViewSet.hydrate works on
    consumed,   \* the view records hydrate has read so far, in reading order
    hpc,        \* position of ViewSet.hydrate
    htype,      \* index in TypeOrder of the list hydrate is looping over
    lists,      \* hydrate's local lists of hydrated views, one per view type
    result,     \* _views of the ViewSet hydrate has constructed, or None
    herr        \* the exception hydrate has raised, or None

vars == <<model, heap, _views, last, returned, doc, consumed, hpc, htype, lists,
          result, herr>>

hydrateVars == <<doc, consumed, hpc, htype, lists, result, herr>>

-----------------------------------------------------------------------------
(* Bounds of the model.                                                    *)

\* number of distinct non-empty view keys callers and documents use
NumKeys == 2

\* number of view objects that may be alive at once
MaxObjects == 2

\* number of view records a document handed to hydrate holds
MaxDocViews == 2

-----------------------------------------------------------------------------
(* Values.                                                                 *)

\* Python's None, where a string (a key, an id, an exception) is expected
None == "None"

\* Python's None, where a reference to a view is expected
NoView == 0

\* Python's None, where an element or a relationship is expected
NoElement == [id |-> None, kind |-> None]
NoRelationship ==
    [id |-> None, source_id |-> None, destination_id |-> None,
     description |-> None, technology |-> None, interaction_style |-> None,
     linked_relationship_id |-> None]

KeyPool == <<"k1", "k2", "k3", "k4">>

Keys == {KeyPool[i] : i \in 1..NumKeys}

\* what a caller may pass as key: a proper key, the empty string or None
KeyInputs == Keys \cup {"", None}

\* the concrete view types, in the order ViewSet.__init__ chains them
TypeOrder ==
    <<"SystemLandscapeView", "SystemContextView", "ContainerView",
      "ComponentView", "DeploymentView", "DynamicView", "FilteredView">>

ConcreteView == {TypeOrder[i] : i \in 1..Len(TypeOrder)}

\* the two ViewSet objects: the one callers author, the one hydrate builds
Authored == "authored"
Hydrated == "hydrated"

\* what a view's model reference holds once set_model(self.model) has run
ModelRef == "model"
OtherModel == "other model"

\* exceptions
ValueError == "ValueError"
KeyError == "KeyError"
NotFound == "NotFound"
DuplicateIdentifier == "DuplicateIdentifier"

\* outcome of a call: the exception raised (or None) and the value returned
Ok(v) == [raised |-> None, value |-> v]
Raise(e, none) == [raised |-> e, value |-> none]

-----------------------------------------------------------------------------
(* The Model: elements and relationships, each with an id of one id space. *)

\* InteractionStyle
Synchronous == "Synchronous"
Asynchronous == "Asynchronous"

\* an optional argument the caller leaves out
NotGiven == "not given"

\* Relationship with interaction_style defaulting to Asynchronous
RelationshipAsynchronousByDefault(id, source_id, destination_id, description, technology, interaction_style, linked_relationship_id) ==
    [id |-> id, source_id |-> source_id, destination_id |-> destination_id,
     description |-> IF description = NotGiven THEN "" ELSE description,
     technology |-> IF technology = NotGiven THEN "" ELSE technology,
     interaction_style |->
        IF interaction_style = NotGiven THEN Asynchronous ELSE interaction_style,
     linked_relationship_id |->
        IF linked_relationship_id = NotGiven THEN "" ELSE linked_relationship_id]

\* Relationship(...): the fields, each with the default the class declares
Relationship(id, source_id, destination_id, description, technology, interaction_style, linked_relationship_id) ==
    [id |-> id, source_id |-> source_id, destination_id |-> destination_id,
     description |-> IF description = NotGiven THEN "" ELSE description,
     technology |-> IF technology = NotGiven THEN "" ELSE technology,
     interaction_style |->
        IF interaction_style = NotGiven THEN Synchronous ELSE interaction_style,
     linked_relationship_id |->
        IF linked_relationship_id = NotGiven THEN "" ELSE linked_relationship_id]

PersonA == [id |-> "1", kind |-> "Person"]
SystemB == [id |-> "2", kind |-> "SoftwareSystem"]
ContainerC == [id |-> "3", kind |-> "Container"]
UsesAB == Relationship("4", "1", "2", NotGiven, NotGiven, NotGiven, NotGiven)

\* an id no model below registers
DanglingId == "9"

\* the models hydrate and the factories are exercised against
Models ==
    { [elements |-> {SystemB}, relationships |-> {}],
      [elements |-> {PersonA, SystemB, ContainerC}, relationships |-> {UsesAB}] }

\* Model.get_element(id): the element, or a not-found failure
get_element(m, id) ==
    IF \E e \in m.elements : e.id = id
    THEN Ok(CHOOSE e \in m.elements : e.id = id)
    ELSE Raise(NotFound, NoElement)

\* Model.get_relationship(id): the relationship, or a not-found failure
get_relationship(m, id) ==
    IF \E r \in m.relationships : r.id = id
    THEN Ok(CHOOSE r \in m.relationships : r.id = id)
    ELSE Raise(NotFound, NoRelationship)

\* Model.get_software_system_with_id(id)
get_software_system_with_id(m, id) ==
    IF \E e \in m.elements : e.id = id /\ e.kind = "SoftwareSystem"
    THEN Ok(CHOOSE e \in m.elements : e.id = id /\ e.kind = "SoftwareSystem")
    ELSE Raise(NotFound, NoElement)

-----------------------------------------------------------------------------
(* The Identity Registry and the operations that author a model.           *)

\* the ids the generator yields, in order
IdPool == <<"1", "2", "3", "4", "5", "6", "7", "8">>

\* the ids a caller supplies
ExplicitIds == {"2"}

RegisteredIds(m) == {e.id : e \in m.elements} \cup {r.id : r \in m.relationships}

\* a counter of the items created, blind to the ids callers supplied
generate_id_counting(m) ==
    IdPool[Cardinality(m.elements) + Cardinality(m.relationships) + 1]

\* a fresh id: the counter stands past every id registered so far
generate_id(m) ==
    IdPool[CHOOSE n \in 1..Len(IdPool) :
              /\ \A k \in n..Len(IdPool) : IdPool[k] \notin RegisteredIds(m)
              /\ n > 1 => IdPool[n - 1] \in RegisteredIds(m)]

\* assign_id without the test for an id already taken
assign_id_unchecked(m, id) ==
    IF id = "" \/ id = NotGiven THEN Ok(generate_id(m)) ELSE Ok(id)

\* assign_id(item): the id the item carries if it is free, else a fresh one
assign_id(m, id) ==
    IF id = "" \/ id = NotGiven
    THEN Ok(generate_id(m))
    ELSE IF id \in RegisteredIds(m)
    THEN Raise(DuplicateIdentifier, None)
    ELSE Ok(id)

\* the relationships that start or end at an element
RelationshipsOf(m, id) ==
    {r \in m.relationships : r.source_id = id \/ r.destination_id = id}

-----------------------------------------------------------------------------
(* Python dict: a sequence of [key, view] entries with distinct keys.      *)

DictKeys(d) == {d[i].key : i \in 1..Len(d)}

\* key in d
DictHas(d, k) == k \in DictKeys(d)

\* d.values()
DictValues(d) == [i \in 1..Len(d) |-> d[i].view]

\* d[k] = v: replaces the value in place, or appends a new entry
DictSet(d, k, v) ==
    IF DictHas(d, k)
    THEN [i \in 1..Len(d) |-> IF d[i].key = k THEN [key |-> k, view |-> v] ELSE d[i]]
    ELSE Append(d, [key |-> k, view |-> v])

\* d.get(k)
DictGet(d, k) ==
    IF DictHas(d, k)
    THEN (CHOOSE e \in {d[i] : i \in 1..Len(d)} : e.key = k).view
    ELSE NoView

\* d[k]
DictItem(d, k) ==
    IF DictHas(d, k) THEN Ok(DictGet(d, k)) ELSE Raise(KeyError, NoView)

-----------------------------------------------------------------------------
(* View objects.  Every view carries the fields of all variants, None      *)
(* where a variant has no such field:                                      *)
(*   anchor  software_system / container / element of the view             *)
(*   element_views, relationship_views  sets of [id, element] and          *)
(*           [id, relationship]; the reference is None until bound         *)
(*   base_view_key, view  of a FilteredView                                *)

\* isinstance(view, View): every concrete type but FilteredView
IsView(t) == t \in ConcreteView \ {"FilteredView"}

\* the layout information of a view (paper size, positions), as one value:
\* that of a view nobody has laid out, and that of a view laid out by hand
DefaultLayout == "default"
ManualLayout == "manual"

\* <Type>(key=..., <anchor>=..., model=...): a freshly constructed view
NewView(t, key, anchor, m, base_key) ==
    [type |-> t, key |-> key, viewset |-> None, model |-> m, anchor |-> anchor,
     element_views |-> {}, relationship_views |-> {},
     base_view_key |-> base_key, view |-> NoView, layout |-> DefaultLayout]

\* view.set_viewset(view_set)
set_viewset(h, v, vs) == [h EXCEPT ![v].viewset = vs]

\* view.set_model(model)
set_model(h, v, m) == [h EXCEPT ![v].model = m]

\* the anchors a caller can hand to a view of type t over model m
Anchors(t, m) ==
    CASE t \in {"SystemContextView", "ContainerView"} ->
            {e \in m.elements : e.kind = "SoftwareSystem"}
      [] t = "ComponentView" -> {e \in m.elements : e.kind = "Container"}
      [] t = "DynamicView" ->
            {e \in m.elements : e.kind = "SoftwareSystem"} \cup {NoElement}
      [] OTHER -> {NoElement}

-----------------------------------------------------------------------------
(* ViewSet: lookups and the key check.                                     *)

\* get_view with the contract of __getitem__: an unknown key raises
get_view_raising(d, key) == DictItem(d, key)

\* ViewSet.get_view(key)
get_view(d, key) == Ok(DictGet(d, key))

\* ViewSet.__getitem__(key)
getitem(d, key) == DictItem(d, key)

\* ViewSet._add_view(view)
_add_view(d, h, v) == DictSet(d, h[v].key, v)

\* the key check without the test for a key already in use
_ensure_key_is_specific(d, key) ==
    IF key = None \/ key = "" THEN Raise(ValueError, None) ELSE Ok(None)

\* the key check reporting a key already in use as a KeyError
_ensure_key_raising_key_error(d, key) ==
    IF key = None \/ key = ""
    THEN Raise(ValueError, None)
    ELSE IF DictHas(d, key) THEN Raise(KeyError, None) ELSE Ok(None)

\* the key check with the test for None only: the empty string passes
_ensure_key_is_not_none(d, key) ==
    IF key = None
    THEN Raise(ValueError, None)
    ELSE IF DictHas(d, key) THEN Raise(ValueError, None) ELSE Ok(None)

\* ViewSet._ensure_key_is_specific_and_unique(key)
_ensure_key_is_specific_and_unique(d, key) ==
    IF key = None \/ key = ""
    THEN Raise(ValueError, None)
    ELSE IF DictHas(d, key) THEN Raise(ValueError, None) ELSE Ok(None)

\* the typed accessor testing isinstance(view, View) instead of the type asked
_get_typed_views_of_any_type(d, h, t) ==
    SelectSeq(DictValues(d), LAMBDA v : IsView(h[v].type))

\* ViewSet._get_typed_views(view_type)
_get_typed_views(d, h, t) ==
    SelectSeq(DictValues(d), LAMBDA v : h[v].type = t)

\* ViewSet.views
views(d) == DictValues(d)

Range(s) == {s[i] : i \in 1..Len(s)}

-----------------------------------------------------------------------------
(* The create_<type>_view factories.  `h` is the heap with the view the    *)
(* call works on at reference v: either the instance the caller supplied   *)
(* or the one the factory has just constructed.  A view constructed by a   *)
(* factory that then raises is unreachable and is dropped from the heap.   *)

\* the record of a call: what was called with which key and instance, whether
\* the key was stored when the call was made, and how the call ended
Call(op, key, arg, raised, ret) ==
    [op |-> op, key |-> key, arg |-> arg, held |-> DictHas(_views, key),
     raised |-> raised, ret |-> ret]

\* a factory that forgets set_viewset
RegisterUnbound(op, h, v, arg, bind_model) ==
    LET check == _ensure_key_is_specific_and_unique(_views, h[v].key) IN
    IF check.raised # None
    THEN /\ last' = Call(op, h[v].key, arg, check.raised, NoView)
         /\ UNCHANGED <<heap, _views, returned>>
    ELSE /\ heap' = h
         /\ _views' = _add_view(_views, h, v)
         /\ last' = Call(op, h[v].key, arg, None, v)
         /\ returned' = returned + 1

\* a factory that binds the view to the ViewSet before it checks the key
RegisterBindingFirst(op, h, v, arg, bind_model) ==
    LET h1 == set_viewset(h, v, Authored)
        check == _ensure_key_is_specific_and_unique(_views, h[v].key)
    IN IF check.raised # None
       THEN /\ last' = Call(op, h[v].key, arg, check.raised, NoView)
            /\ heap' = IF arg = NoView THEN heap ELSE h1
            /\ UNCHANGED <<_views, returned>>
       ELSE LET h2 == IF bind_model THEN set_model(h1, v, ModelRef) ELSE h1
            IN /\ heap' = h2
               /\ _views' = _add_view(_views, h2, v)
               /\ last' = Call(op, h[v].key, arg, None, v)
               /\ returned' = returned + 1

\* key check, set_viewset, (set_model), _add_view, return
Register(op, h, v, arg, bind_model) ==
    LET check == _ensure_key_is_specific_and_unique(_views, h[v].key) IN
    IF check.raised # None
    THEN /\ last' = Call(op, h[v].key, arg, check.raised, NoView)
         /\ UNCHANGED <<heap, _views, returned>>
    ELSE LET h1 == set_viewset(h, v, Authored)
             h2 == IF bind_model THEN set_model(h1, v, ModelRef) ELSE h1
         IN /\ heap' = h2
            /\ _views' = _add_view(_views, h2, v)
            /\ last' = Call(op, h[v].key, arg, None, v)
            /\ returned' = returned + 1

\* the instances of type t a caller holds and may pass to a factory
Instances(t) == {v \in 1..Len(heap) : heap[v].type = t}

Authoring == hpc = "idle"

\* the views the caller has constructed and not registered with the ViewSet;
\* a caller constructs one view at a time and hands it to a factory
Unregistered == {v \in 1..Len(heap) : heap[v].viewset = None}

\* a factory that constructs its view: the heap with the new view, its reference
Fresh == Len(heap) + 1

CanAllocate == Len(heap) < MaxObjects

\* the model a caller gives the view it constructs: SystemLandscapeView takes
\* a model, which is the caller's to choose; the other types take none
CallerModel(t) == IF t = "SystemLandscapeView" THEN OtherModel ELSE None

\* a caller constructs a view of a static type to pass to a factory later
ConstructView(t, key, anchor) ==
    /\ Authoring
    /\ CanAllocate
    /\ Unregistered = {}
    /\ heap' = Append(heap, NewView(t, key, anchor, CallerModel(t), None))
    /\ last' = Call("construct", key, NoView, None, Fresh)
    /\ UNCHANGED <<model, _views, returned, hydrateVars>>

\* a factory called with keyword arguments constructs the view `view` and
\* registers it; one called with an instance registers that instance
Factory(op, instance, view, bind_model) ==
    /\ Authoring
    /\ IF instance = NoView
       THEN /\ CanAllocate
            /\ Register(op, Append(heap, view), Fresh, NoView, bind_model)
       ELSE Register(op, heap, instance, instance, bind_model)
    /\ UNCHANGED <<model, hydrateVars>>

create_system_landscape_view(instance, key) ==
    Factory("create_system_landscape_view", instance,
            NewView("SystemLandscapeView", key, NoElement, ModelRef, None), FALSE)

create_system_context_view(instance, key, software_system) ==
    Factory("create_system_context_view", instance,
            NewView("SystemContextView", key, software_system, None, None), FALSE)

create_container_view(instance, key, software_system) ==
    Factory("create_container_view", instance,
            NewView("ContainerView", key, software_system, None, None), FALSE)

create_component_view(instance, key, container) ==
    Factory("create_component_view", instance,
            NewView("ComponentView", key, container, None, None), FALSE)

create_deployment_view(key) ==
    Factory("create_deployment_view", NoView,
            NewView("DeploymentView", key, NoElement, None, None), TRUE)

create_dynamic_view(key, element) ==
    Factory("create_dynamic_view", NoView,
            NewView("DynamicView", key, element, None, None), TRUE)

create_filtered_view(key, base_view_key) ==
    Factory("create_filtered_view", NoView,
            NewView("FilteredView", key, NoElement, None, base_view_key), FALSE)

\* a caller looks a key up with get_view
GetView(key) ==
    /\ Authoring
    /\ LET r == get_view(_views, key) IN
       last' = Call("get_view", key, NoView, r.raised, r.value)
    /\ UNCHANGED <<model, heap, _views, returned, hydrateVars>>

\* a caller looks a key up with viewset[key]
GetItem(key) ==
    /\ Authoring
    /\ LET r == getitem(_views, key) IN
       last' = Call("__getitem__", key, NoView, r.raised, r.value)
    /\ UNCHANGED <<model, heap, _views, returned, hydrateVars>>

-----------------------------------------------------------------------------
(* The exchange document.  A view record (a <Type>ViewIO) carries the key, *)
(* the id of the anchor (software_system_id / container_id / element_id),  *)
(* the ids of its element views and relationship views, and, for a         *)
(* filtered view, base_view_key.  A document (ViewSetIO) is one list of    *)
(* records per view type, indexed as TypeOrder.                             *)

ViewIORecord(t, key, anchor_id, element_ids, relationship_ids, base_key, layout) ==
    [type |-> t, key |-> key, anchor_id |-> anchor_id,
     element_views |-> element_ids, relationship_views |-> relationship_ids,
     base_view_key |-> base_key, layout |-> layout]

\* <Type>ViewIO.from_orm(view): scalar fields and ids only
ViewIO(view) ==
    ViewIORecord(view.type, view.key, view.anchor.id,
                 {ev.id : ev \in view.element_views},
                 {rv.id : rv \in view.relationship_views},
                 view.base_view_key, view.layout)

\* ViewSetIO.from_orm(view_set): one list per typed accessor of the ViewSet
ViewSetIO(d, h) ==
    [i \in 1..Len(TypeOrder) |->
        LET vs == _get_typed_views(d, h, TypeOrder[i])
        IN [j \in 1..Len(vs) |-> ViewIO(h[vs[j]])]]

EmptyLists == [i \in 1..Len(TypeOrder) |-> <<>>]

-----------------------------------------------------------------------------
(* ViewSet.hydrate.                                                        *)

\* <Type>View.hydrate(view_io, ...): the view with its element views and
\* relationship views still unbound
HydrateShell(t, view_io, anchor, m) ==
    [type |-> t, key |-> view_io.key, viewset |-> None, model |-> m,
     anchor |-> anchor,
     element_views |-> {[id |-> i, element |-> NoElement] : i \in view_io.element_views},
     relationship_views |->
        {[id |-> i, relationship |-> NoRelationship] : i \in view_io.relationship_views},
     base_view_key |-> view_io.base_view_key, view |-> NoView,
     layout |-> view_io.layout]

\* Python truth value of an optional string
Falsy(x) == x = None \/ x = ""

\* the lookup with the container of a component view resolved as a software
\* system
ResolveAnchorAsSoftwareSystem(t, view_io, m) ==
    CASE t \in {"SystemContextView", "ContainerView", "ComponentView"} ->
            get_software_system_with_id(m, view_io.anchor_id)
      [] t = "DynamicView" ->
            IF Falsy(view_io.anchor_id) THEN Ok(NoElement)
            ELSE get_element(m, view_io.anchor_id)
      [] OTHER -> Ok(NoElement)

\* the lookup with the element of a dynamic view resolved whatever its id
ResolveAnchorAlwaysLookingUp(t, view_io, m) ==
    CASE t \in {"SystemContextView", "ContainerView"} ->
            get_software_system_with_id(m, view_io.anchor_id)
      [] t = "ComponentView" -> get_element(m, view_io.anchor_id)
      [] t = "DynamicView" -> get_element(m, view_io.anchor_id)
      [] OTHER -> Ok(NoElement)

\* the lookup hydrate makes before a record of type t is reconstructed
ResolveAnchor(t, view_io, m) ==
    CASE t \in {"SystemContextView", "ContainerView"} ->
            get_software_system_with_id(m, view_io.anchor_id)
      [] t = "ComponentView" -> get_element(m, view_io.anchor_id)
      [] t = "DynamicView" ->
            IF Falsy(view_io.anchor_id) THEN Ok(NoElement)
            ELSE get_element(m, view_io.anchor_id)
      [] OTHER -> Ok(NoElement)

\* _hydrate_view without its second loop: relationship views stay unbound
_hydrate_view_elements_only(view, m) ==
    IF \E ev \in view.element_views : get_element(m, ev.id).raised # None
    THEN Raise(NotFound, view)
    ELSE Ok([view EXCEPT
                !.element_views =
                    {[id |-> ev.id, element |-> get_element(m, ev.id).value] :
                        ev \in view.element_views}])

\* _hydrate_view that binds None where a lookup finds nothing and carries on
_hydrate_view_lenient(view, m) ==
    Ok([view EXCEPT
            !.element_views =
                {[id |-> ev.id, element |-> get_element(m, ev.id).value] :
                    ev \in view.element_views},
            !.relationship_views =
                {[id |-> rv.id, relationship |-> get_relationship(m, rv.id).value] :
                    rv \in view.relationship_views}])

\* ViewSet._hydrate_view(view, model)
_hydrate_view(view, m) ==
    IF \E ev \in view.element_views : get_element(m, ev.id).raised # None
    THEN Raise(NotFound, view)
    ELSE IF \E rv \in view.relationship_views :
                get_relationship(m, rv.id).raised # None
    THEN Raise(NotFound, view)
    ELSE Ok([view EXCEPT
                !.element_views =
                    {[id |-> ev.id, element |-> get_element(m, ev.id).value] :
                        ev \in view.element_views},
                !.relationship_views =
                    {[id |-> rv.id,
                      relationship |-> get_relationship(m, rv.id).value] :
                        rv \in view.relationship_views}])

\* a pass that resolves the ids of the record against the model of the
\* document, whatever has been reconstructed of it
HydrateOneDeferred(t, view_io, m) ==
    LET whole == [elements |-> {PersonA, SystemB, ContainerC},
                  relationships |-> {UsesAB}]
        anchor == ResolveAnchor(t, view_io, whole)
    IN IF anchor.raised # None
       THEN Raise(anchor.raised, HydrateShell(t, view_io, NoElement, None))
       ELSE _hydrate_view(
               HydrateShell(t, view_io, anchor.value,
                            IF t = "SystemLandscapeView" THEN ModelRef ELSE None),
               whole)

\* one pass of a loop of hydrate over a record of a non-filtered type
HydrateOne(t, view_io, m) ==
    LET anchor == ResolveAnchor(t, view_io, m) IN
    IF anchor.raised # None
    THEN Raise(anchor.raised, HydrateShell(t, view_io, NoElement, None))
    ELSE _hydrate_view(
            HydrateShell(t, view_io, anchor.value,
                         IF t = "SystemLandscapeView" THEN ModelRef ELSE None),
            m)

\* the chain with dynamic_views left out
ChainWithoutDynamicViews(ls) == ls[1] \o ls[2] \o ls[3] \o ls[4] \o ls[5] \o ls[7]

\* itertools.chain of the seven lists, in the order __init__ names them
Chain(ls) == ls[1] \o ls[2] \o ls[3] \o ls[4] \o ls[5] \o ls[6] \o ls[7]

RECURSIVE DictOfViews(_, _, _)
DictOfViews(d, vs, h) ==
    IF vs = <<>> THEN d
    ELSE DictOfViews(DictSet(d, h[Head(vs)].key, Head(vs)), Tail(vs), h)

\* a constructor in which the first view with a key keeps the key
ViewSetInitFirstWins(ls, h) ==
    LET all_views == Chain(ls) IN
    DictOfViews(<<>>, [i \in 1..Len(all_views) |-> all_views[Len(all_views) + 1 - i]], h)

\* ViewSet.__init__: self._views = {view.key: view for view in all_views}
ViewSetInit(ls, h) == DictOfViews(<<>>, Chain(ls), h)

\* the patch-up loop written with get_view: an unknown base key binds None
RECURSIVE PatchFilteredWithGetView(_, _, _)
PatchFilteredWithGetView(h, fvs, d) ==
    IF fvs = <<>> THEN [raised |-> None, heap |-> h]
    ELSE PatchFilteredWithGetView(
            [h EXCEPT ![Head(fvs)].view = get_view(d, h[Head(fvs)].base_view_key).value],
            Tail(fvs), d)

\* the loop that patches up filtered views; stops at the first KeyError
RECURSIVE PatchFiltered(_, _, _)
PatchFiltered(h, fvs, d) ==
    IF fvs = <<>> THEN [raised |-> None, heap |-> h]
    ELSE LET r == getitem(d, h[Head(fvs)].base_view_key) IN
         IF r.raised # None
         THEN [raised |-> r.raised, heap |-> h]
         ELSE PatchFiltered([h EXCEPT ![Head(fvs)].view = r.value], Tail(fvs), d)

\* keys and ids an external document may carry
DocKeys == Keys
DanglingKey == "k0"
AnchorRefIds == {"2", DanglingId}

\* the element view ids and relationship view ids a record may carry
ViewRefs ==
    { [elements |-> {}, relationships |-> {}],
      [elements |-> {"1", "2"}, relationships |-> {"4"}],
      [elements |-> {"2", DanglingId}, relationships |-> {}],
      [elements |-> {"2"}, relationships |-> {DanglingId}] }

\* the records of type t an external document may hold
ViewIOs(t) ==
    IF t = "FilteredView"
    THEN {ViewIORecord(t, k, None, {}, {}, b, ManualLayout) :
            k \in DocKeys, b \in DocKeys \cup {DanglingKey}}
    ELSE LET anchors ==
                CASE t \in {"SystemContextView", "ContainerView", "ComponentView"} ->
                        AnchorRefIds
                  [] t = "DynamicView" -> AnchorRefIds \cup {""}
                  [] OTHER -> {None}
         IN {ViewIORecord(t, k, a, refs.elements, refs.relationships, None,
                          ManualLayout) :
                k \in DocKeys, a \in anchors, refs \in ViewRefs}

\* view_io is the next record of the list hydrate is looping over: the head of
\* that list of a document given in full, any record when the document is
\* supplied from outside
NextRecord(view_io) ==
    IF doc.known
    THEN doc.lists[htype] # <<>> /\ view_io = Head(doc.lists[htype])
    ELSE Len(consumed) < MaxDocViews /\ view_io.type = TypeOrder[htype]

EndOfList == doc.known => doc.lists[htype] = <<>>

Advance == IF doc.known THEN [doc EXCEPT !.lists[htype] = Tail(@)] ELSE doc

HydrateFail(e) ==
    /\ hpc' = "raised"
    /\ herr' = e

\* a loop that catches the failure of a record, drops the record and goes on
HydrateRecordSkipping(view_io) ==
    /\ hpc = "loop"
    /\ TypeOrder[htype] # "FilteredView"
    /\ NextRecord(view_io)
    /\ LET r == HydrateOne(TypeOrder[htype], view_io, model) IN
       IF r.raised # None
       THEN UNCHANGED <<heap, lists>>
       ELSE /\ heap' = Append(heap, r.value)
            /\ lists' = [lists EXCEPT ![htype] = Append(@, Len(heap) + 1)]
    /\ doc' = Advance
    /\ consumed' = Append(consumed, view_io)
    /\ UNCHANGED <<model, _views, last, returned, htype, result, hpc, herr>>

\* a pass that registers in the model the elements a record names and the
\* model lacks
HydrateRecordRegistering(view_io) ==
    /\ hpc = "loop"
    /\ TypeOrder[htype] # "FilteredView"
    /\ NextRecord(view_io)
    /\ LET missing == {i \in view_io.element_views :
                          get_element(model, i).raised # None}
           m == [model EXCEPT
                    !.elements = @ \cup {[id |-> i, kind |-> "Person"] : i \in missing}]
           r == HydrateOne(TypeOrder[htype], view_io, m)
       IN /\ model' = m
          /\ IF r.raised # None
             THEN /\ HydrateFail(r.raised)
                  /\ UNCHANGED <<heap, lists>>
             ELSE /\ heap' = Append(heap, r.value)
                  /\ lists' = [lists EXCEPT ![htype] = Append(@, Len(heap) + 1)]
                  /\ UNCHANGED <<hpc, herr>>
    /\ doc' = Advance
    /\ consumed' = Append(consumed, view_io)
    /\ UNCHANGED <<_views, last, returned, htype, result>>

\* one pass of one of the six loops over the non-filtered lists
HydrateRecord(view_io) ==
    /\ hpc = "loop"
    /\ TypeOrder[htype] # "FilteredView"
    /\ NextRecord(view_io)
    /\ LET r == HydrateOne(TypeOrder[htype], view_io, model) IN
       IF r.raised # None
       THEN /\ HydrateFail(r.raised)
            /\ UNCHANGED <<heap, lists>>
       ELSE /\ heap' = Append(heap, r.value)
            /\ lists' = [lists EXCEPT ![htype] = Append(@, Len(heap) + 1)]
            /\ UNCHANGED <<hpc, herr>>
    /\ doc' = Advance
    /\ consumed' = Append(consumed, view_io)
    /\ UNCHANGED <<model, _views, last, returned, htype, result>>

\* one element of the comprehension over views.filtered_views
HydrateFilteredRecord(view_io) ==
    /\ hpc = "loop"
    /\ TypeOrder[htype] = "FilteredView"
    /\ NextRecord(view_io)
    /\ heap' = Append(heap, HydrateShell("FilteredView", view_io, NoElement, None))
    /\ lists' = [lists EXCEPT ![htype] = Append(@, Len(heap) + 1)]
    /\ doc' = Advance
    /\ consumed' = Append(consumed, view_io)
    /\ UNCHANGED <<model, _views, last, returned, hpc, htype, result, herr>>

\* a loop that may stop before its list is exhausted
HydrateEndOfListEarly ==
    /\ hpc = "loop"
    /\ IF htype < Len(TypeOrder)
       THEN htype' = htype + 1 /\ UNCHANGED hpc
       ELSE hpc' = "construct" /\ UNCHANGED htype
    /\ UNCHANGED <<model, heap, _views, last, returned, doc, consumed, lists,
                   result, herr>>

\* a list is exhausted: on to the next loop, and after the last to cls(...)
HydrateEndOfList ==
    /\ hpc = "loop"
    /\ EndOfList
    /\ IF htype < Len(TypeOrder)
       THEN htype' = htype + 1 /\ UNCHANGED hpc
       ELSE hpc' = "construct" /\ UNCHANGED htype
    /\ UNCHANGED <<model, heap, _views, last, returned, doc, consumed, lists,
                   result, herr>>

\* a constructor that calls set_viewset on every view it is given
HydrateConstructBinding ==
    /\ hpc = "construct"
    /\ result' = ViewSetInit(lists, heap)
    /\ heap' = [v \in 1..Len(heap) |->
                    IF v \in Range(Chain(lists))
                    THEN [heap[v] EXCEPT !.viewset = Hydrated] ELSE heap[v]]
    /\ hpc' = "patch"
    /\ UNCHANGED <<model, _views, last, returned, doc, consumed, htype, lists, herr>>

\* result = cls(model=model, system_landscape_views=..., ...)
HydrateConstruct ==
    /\ hpc = "construct"
    /\ result' = ViewSetInit(lists, heap)
    /\ hpc' = "patch"
    /\ UNCHANGED <<model, heap, _views, last, returned, doc, consumed, htype,
                   lists, herr>>

\* the patch-up loop over result.filtered_views, then return result
HydratePatch ==
    /\ hpc = "patch"
    /\ LET r == PatchFiltered(heap, _get_typed_views(result, heap, "FilteredView"),
                              result)
       IN /\ heap' = r.heap
          /\ IF r.raised # None
             THEN HydrateFail(r.raised)
             ELSE hpc' = "returned" /\ UNCHANGED herr
    /\ UNCHANGED <<model, _views, last, returned, doc, consumed, htype, lists,
                   result>>

-----------------------------------------------------------------------------
(* Populating a view, and handing the authored ViewSet to the exchange.    *)

\* view.add_all_elements(): an element view on every element of the model and
\* a relationship view on every relationship between two of them
add_all_elements(view, m) ==
    [view EXCEPT
        !.element_views = @ \cup {[id |-> e.id, element |-> e] : e \in m.elements},
        !.relationship_views =
            @ \cup {[id |-> r.id, relationship |-> r] : r \in m.relationships}]

\* the caller populates a view it has registered
AddAllElements(v) ==
    /\ Authoring
    /\ IsView(heap[v].type)
    /\ heap[v].viewset = Authored
    /\ heap[v].element_views = {}
    /\ heap' = [heap EXCEPT ![v] = add_all_elements(@, model)]
    /\ UNCHANGED <<model, _views, last, returned, hydrateVars>>

\* the authored ViewSet is serialized and the document handed to hydrate,
\* together with the model the ViewSet was authored over
Serialize ==
    /\ Authoring
    /\ doc' = [known |-> TRUE, lists |-> ViewSetIO(_views, heap)]
    /\ hpc' = "loop"
    /\ htype' = 1
    /\ UNCHANGED <<model, heap, _views, last, returned, consumed, lists, result,
                   herr>>

-----------------------------------------------------------------------------
(* ViewSet.copy_layout_information_from.  The destination is the authored  *)
(* ViewSet, the source a ViewSet loaded from a document of an earlier      *)
(* generation of the workspace.                                            *)

\* View.copy_layout_information_from(source_view): layout only
view_copy_layout_information_from(destination_view, source_view) ==
    [destination_view EXCEPT !.layout = source_view.layout]

\* the loop body with the type test left out: a key match is enough
CopyLayoutOfKey(h, source_view, d) ==
    LET destination_view == get_view(d, h[source_view].key).value IN
    IF destination_view # NoView /\ IsView(h[destination_view].type)
    THEN [h EXCEPT ![destination_view] =
            view_copy_layout_information_from(@, h[source_view])]
    ELSE h

\* the loop body with receiver and argument of the copy swapped
CopyLayoutReversed(h, source_view, d) ==
    LET destination_view == get_view(d, h[source_view].key).value IN
    IF /\ destination_view # NoView
       /\ IsView(h[destination_view].type)
       /\ h[destination_view].type = h[source_view].type
    THEN [h EXCEPT ![source_view] =
            view_copy_layout_information_from(@, h[destination_view])]
    ELSE h

\* the loop body without the isinstance test: the same concrete type is enough
CopyLayoutOfSameType(h, source_view, d) ==
    LET destination_view == get_view(d, h[source_view].key).value IN
    IF /\ destination_view # NoView
       /\ h[destination_view].type = h[source_view].type
    THEN [h EXCEPT ![destination_view] =
            view_copy_layout_information_from(@, h[source_view])]
    ELSE h

\* one pass of the loop of copy_layout_information_from
CopyLayoutOf(h, source_view, d) ==
    LET destination_view == get_view(d, h[source_view].key).value IN
    IF /\ destination_view # NoView
       /\ IsView(h[destination_view].type)
       /\ h[destination_view].type = h[source_view].type
    THEN [h EXCEPT ![destination_view] =
            view_copy_layout_information_from(@, h[source_view])]
    ELSE h

RECURSIVE CopyLayoutLoop(_, _, _)
CopyLayoutLoop(h, source_views, d) ==
    IF source_views = <<>> THEN h
    ELSE CopyLayoutLoop(CopyLayoutOf(h, Head(source_views), d),
                        Tail(source_views), d)

\* ViewSet.copy_layout_information_from(source), on the ViewSet with dict d
copy_layout_information_from(h, d, source) == CopyLayoutLoop(h, views(source), d)

\* copy_layout_information_from treats the six types of View alike: two of
\* them and FilteredView stand for the seven
LayoutTypes == {"SystemLandscapeView", "DeploymentView", "FilteredView"}

\* the records of a document of these types whose references all resolve
SourceViewIOs(t) ==
    {view_io \in ViewIOs(t) :
        /\ t \in LayoutTypes
        /\ view_io.element_views = {}
        /\ view_io.relationship_views = {}
        /\ view_io.base_view_key # DanglingKey}

\* the caller turns to the document of the earlier generation
LoadSource ==
    /\ Authoring
    /\ _views # <<>>
    /\ doc' = [known |-> FALSE, lists |-> EmptyLists]
    /\ hpc' = "loop"
    /\ UNCHANGED <<model, heap, _views, last, returned, consumed, htype, lists,
                   result, herr>>

\* view_set.copy_layout_information_from(source), source the ViewSet loaded
CopyLayout ==
    /\ hpc = "returned"
    /\ ~ doc.known
    /\ heap' = copy_layout_information_from(heap, _views, result)
    /\ hpc' = "copied"
    /\ UNCHANGED <<model, _views, last, returned, doc, consumed, htype, lists,
                   result, herr>>

-----------------------------------------------------------------------------
(* Authoring the model: elements, relationships, and a view populated with *)
(* the nearest neighbours of an element.                                   *)

MaxItems == 4
MaxElements == 3
MaxRelationships == 2

\* a call of the model's API, as its caller sees it: the id and the arguments
\* given, whether the id was registered, the exception raised, the item made
ItemCall(op, id, args, raised, item) ==
    [op |-> op, key |-> id, args |-> args,
     held |-> id \in RegisteredIds(model), raised |-> raised, item |-> item]

NoArgs == [source |-> None, destination |-> None]

ItemCount == Cardinality(model.elements) + Cardinality(model.relationships)

\* the views are declared once the model is built
Modelling == Authoring /\ _views = <<>>

\* add_person / add_software_system / add_container / add_component:
\* create the element, assign its id, register it
AddElement(op, kind, id) ==
    /\ Modelling
    /\ LET assigned == assign_id(model, id) IN
       IF assigned.raised # None
       THEN /\ last' = ItemCall(op, id, NoArgs, assigned.raised, NoElement)
            /\ UNCHANGED <<model, returned>>
       ELSE LET element == [id |-> assigned.value, kind |-> kind] IN
            /\ model' = [model EXCEPT !.elements = @ \cup {element}]
            /\ last' = ItemCall(op, id, NoArgs, None, element)
            /\ returned' = returned + 1
    /\ UNCHANGED <<heap, _views, hydrateVars>>

add_person(id) == AddElement("add_person", "Person", id)

add_software_system(id) == AddElement("add_software_system", "SoftwareSystem", id)

add_container(software_system, id) ==
    /\ software_system \in model.elements
    /\ software_system.kind = "SoftwareSystem"
    /\ AddElement("add_container", "Container", id)

add_component(container, id) ==
    /\ container \in model.elements
    /\ container.kind = "Container"
    /\ AddElement("add_component", "Component", id)

\* a store that keeps one relationship per source, destination and description
AddRelationshipReplacing(op, source, destination, description, technology, interaction_style, linked_relationship_id) ==
    /\ Modelling
    /\ source \in model.elements
    /\ destination \in model.elements
    /\ LET relationship ==
            Relationship(assign_id(model, NotGiven).value, source.id, destination.id,
                         description, technology, interaction_style,
                         linked_relationship_id)
           same == {q \in model.relationships :
                       /\ q.source_id = relationship.source_id
                       /\ q.destination_id = relationship.destination_id
                       /\ q.description = relationship.description}
       IN /\ model' = [model EXCEPT !.relationships = (@ \ same) \cup {relationship}]
          /\ last' = ItemCall(op, NotGiven,
                              [source |-> source.id, destination |-> destination.id,
                               description |-> description,
                               technology |-> technology,
                               interaction_style |-> interaction_style],
                              None, relationship)
    /\ returned' = returned + 1
    /\ UNCHANGED <<heap, _views, hydrateVars>>

\* the Relationship Store takes a relationship: assign its id, keep it
AddRelationship(op, source, destination, description, technology, interaction_style, linked_relationship_id) ==
    /\ Modelling
    /\ source \in model.elements
    /\ destination \in model.elements
    /\ LET relationship ==
            Relationship(assign_id(model, NotGiven).value, source.id, destination.id,
                         description, technology, interaction_style,
                         linked_relationship_id)
       IN /\ model' = [model EXCEPT !.relationships = @ \cup {relationship}]
          /\ last' = ItemCall(op, NotGiven,
                              [source |-> source.id, destination |-> destination.id,
                               description |-> description,
                               technology |-> technology,
                               interaction_style |-> interaction_style],
                              None, relationship)
    /\ returned' = returned + 1
    /\ UNCHANGED <<heap, _views, hydrateVars>>

\* source.uses(destination, description, technology, interaction_style)
uses(source, destination, description, technology, interaction_style) ==
    AddRelationship("uses", source, destination, description, technology,
                    interaction_style, NotGiven)

\* source.delivers(destination, description): an asynchronous notification
delivers(source, destination, description) ==
    AddRelationship("delivers", source, destination, description, NotGiven,
                    Asynchronous, NotGiven)

\* a relationship that names another one as the one it is linked to
add_relationship(source, destination, linked_relationship_id) ==
    AddRelationship("add_relationship", source, destination, NotGiven, NotGiven,
                    NotGiven, linked_relationship_id)

\* the neighbours of the neighbours as well
add_neighbours_of_neighbours(view, m, element) ==
    LET near == {e \in m.elements :
                    \/ e.id = element.id
                    \/ \E r \in RelationshipsOf(m, element.id) :
                          e.id \in {r.source_id, r.destination_id}}
        far == {e \in m.elements :
                    \E n \in near : \E r \in RelationshipsOf(m, n.id) :
                        e.id \in {r.source_id, r.destination_id}}
        ids == {e.id : e \in near \cup far}
    IN [view EXCEPT
            !.element_views = @ \cup {[id |-> e.id, element |-> e] : e \in near \cup far},
            !.relationship_views =
                @ \cup {[id |-> r.id, relationship |-> r] :
                            r \in {q \in m.relationships :
                                      q.source_id \in ids /\ q.destination_id \in ids}}]

\* view.add_nearest_neighbours(element): the element, every element one
\* relationship away in either direction, and the relationships among them
add_nearest_neighbours(view, m, element) ==
    LET near == {e \in m.elements :
                    \/ e.id = element.id
                    \/ \E r \in RelationshipsOf(m, element.id) :
                          e.id \in {r.source_id, r.destination_id}}
        ids == {e.id : e \in near}
    IN [view EXCEPT
            !.element_views = @ \cup {[id |-> e.id, element |-> e] : e \in near},
            !.relationship_views =
                @ \cup {[id |-> r.id, relationship |-> r] :
                            r \in {q \in m.relationships :
                                      q.source_id \in ids /\ q.destination_id \in ids}}]

\* the caller populates an empty view with the neighbourhood of an element
AddNearestNeighbours(v, element) ==
    /\ Authoring
    /\ IsView(heap[v].type)
    /\ heap[v].viewset = Authored
    /\ heap[v].element_views = {}
    /\ element \in model.elements
    /\ heap' = [heap EXCEPT ![v] = add_nearest_neighbours(@, model, element)]
    /\ last' = ItemCall("add_nearest_neighbours", element.id, NoArgs, None, element)
    /\ UNCHANGED <<model, _views, returned, hydrateVars>>

-----------------------------------------------------------------------------
(* Specifications.                                                         *)

NoCall == [op |-> "none", key |-> None, arg |-> NoView, held |-> FALSE,
           raised |-> None, ret |-> NoView]

\* an empty ViewSet over a model, nothing hydrated
InitCommon ==
    /\ model \in Models
    /\ heap = <<>>
    /\ _views = <<>>
    /\ last = NoCall
    /\ returned = 0
    /\ consumed = <<>>
    /\ htype = 1
    /\ lists = EmptyLists
    /\ result = <<>>
    /\ herr = None

Init ==
    /\ InitCommon
    /\ doc = [known |-> TRUE, lists |-> EmptyLists]
    /\ hpc = "idle"

StaticTypes ==
    {"SystemLandscapeView", "SystemContextView", "ContainerView", "ComponentView"}

\* a caller of the view-creation API passing keyword arguments
CreateFromArguments ==
    \/ \E k \in KeyInputs : create_system_landscape_view(NoView, k)
    \/ \E k \in KeyInputs, a \in Anchors("SystemContextView", model) :
          create_system_context_view(NoView, k, a)
    \/ \E k \in KeyInputs, a \in Anchors("ContainerView", model) :
          create_container_view(NoView, k, a)
    \/ \E k \in KeyInputs, a \in Anchors("ComponentView", model) :
          create_component_view(NoView, k, a)
    \/ \E k \in KeyInputs : create_deployment_view(k)
    \/ \E k \in KeyInputs, a \in Anchors("DynamicView", model) :
          create_dynamic_view(k, a)
    \/ \E k \in KeyInputs, b \in Keys : create_filtered_view(k, b)

\* a caller passing a view instance to one of the four factories that take one
CreateFromInstance ==
    \/ \E i \in Instances("SystemLandscapeView") :
          create_system_landscape_view(i, None)
    \/ \E i \in Instances("SystemContextView") :
          create_system_context_view(i, None, NoElement)
    \/ \E i \in Instances("ContainerView") :
          create_container_view(i, None, NoElement)
    \/ \E i \in Instances("ComponentView") :
          create_component_view(i, None, NoElement)

Next ==
    \/ CreateFromArguments
    \/ CreateFromInstance
    \/ \E t \in StaticTypes, k \in KeyInputs :
          \E a \in Anchors(t, model) : ConstructView(t, k, a)

Spec == Init /\ [][Next]_vars

\* the factories and the two lookups
NextLookup ==
    \/ CreateFromArguments
    \/ \E k \in KeyInputs : GetView(k)
    \/ \E k \in KeyInputs : GetItem(k)

SpecLookup == Init /\ [][NextLookup]_vars

\* the factories called with keys that are free, population of the views,
\* serialization of the ViewSet and hydration of the document it yields
CreateFresh ==
    \/ \E k \in Keys \ DictKeys(_views) : create_system_landscape_view(NoView, k)
    \/ \E k \in Keys \ DictKeys(_views), a \in Anchors("SystemContextView", model) :
          create_system_context_view(NoView, k, a)
    \/ \E k \in Keys \ DictKeys(_views), a \in Anchors("ContainerView", model) :
          create_container_view(NoView, k, a)
    \/ \E k \in Keys \ DictKeys(_views), a \in Anchors("ComponentView", model) :
          create_component_view(NoView, k, a)
    \/ \E k \in Keys \ DictKeys(_views) : create_deployment_view(k)
    \/ \E k \in Keys \ DictKeys(_views), a \in Anchors("DynamicView", model) :
          create_dynamic_view(k, a)
    \/ \E k \in Keys \ DictKeys(_views), b \in Keys : create_filtered_view(k, b)

\* hydrate reads the document it was given
HydrateGiven ==
    /\ doc.lists[htype] # <<>>
    /\ \/ HydrateRecord(Head(doc.lists[htype]))
       \/ HydrateFilteredRecord(Head(doc.lists[htype]))

NextRoundTrip ==
    \/ CreateFresh
    \/ \E v \in 1..Len(heap) : AddAllElements(v)
    \/ Serialize
    \/ HydrateGiven
    \/ HydrateEndOfList
    \/ HydrateConstruct
    \/ HydratePatch

SpecRoundTrip == Init /\ [][NextRoundTrip]_vars

\* hydrate of a document supplied from outside, against a model
InitHydrate ==
    /\ InitCommon
    /\ doc = [known |-> FALSE, lists |-> EmptyLists]
    /\ hpc = "loop"

Hydrate ==
    \/ \E view_io \in ViewIOs(TypeOrder[htype]) : HydrateRecord(view_io)
    \/ \E view_io \in ViewIOs(TypeOrder[htype]) : HydrateFilteredRecord(view_io)
    \/ HydrateEndOfList
    \/ HydrateConstruct
    \/ HydratePatch

NextHydrate == Hydrate

SpecHydrate == InitHydrate /\ [][NextHydrate]_vars

-----------------------------------------------------------------------------
(* Properties of the factories and lookups.                                *)

CreateOps ==
    {"create_system_landscape_view", "create_system_context_view",
     "create_container_view", "create_component_view", "create_deployment_view",
     "create_dynamic_view", "create_filtered_view"}

\* the view type each factory is for
TypeOfFactory ==
    [create_system_landscape_view |-> "SystemLandscapeView",
     create_system_context_view |-> "SystemContextView",
     create_container_view |-> "ContainerView",
     create_component_view |-> "ComponentView",
     create_deployment_view |-> "DeploymentView",
     create_dynamic_view |-> "DynamicView",
     create_filtered_view |-> "FilteredView"]

\* the views stored in a dict
StoredViews(d) == {d[i].view : i \in 1..Len(d)}

\* C1: after any sequence of create_<type>_view calls, successful or failing,
\* every stored view is stored under its own key, no stored key is empty or
\* None, no two distinct stored views share a key, and there are as many
\* stored views as calls that returned without raising.
C1_KeysSpecificAndUnique ==
    /\ \A i \in 1..Len(_views) :
          /\ heap[_views[i].view].key = _views[i].key
          /\ _views[i].key # ""
          /\ _views[i].key # None
    /\ \A v, w \in StoredViews(_views) : v # w => heap[v].key # heap[w].key
    /\ Cardinality(StoredViews(_views)) = returned

\* two views are stored and a further call has failed
C1_Witness ==
    /\ Len(_views) = 2
    /\ last.op \in CreateOps
    /\ last.raised = ValueError

\* C2: each of the seven factories raises ValueError when the ViewSet already
\* holds a view with the key, whatever the type of that view.
C2_DuplicateKeyRaises ==
    \A op \in CreateOps : (last.op = op /\ last.held) => last.raised = ValueError

\* create_filtered_view failed on a key a system landscape view is stored under
C2_Witness ==
    /\ last.op = "create_filtered_view"
    /\ last.held
    /\ last.raised = ValueError
    /\ heap[DictGet(_views, last.key)].type = "SystemLandscapeView"

\* C3: each of the seven factories raises ValueError for a key that is the
\* empty string or None, whatever the ViewSet holds.
C3_EmptyKeyRaises ==
    \A op \in CreateOps :
        (last.op = op /\ (last.key = "" \/ last.key = None)) =>
            last.raised = ValueError

\* create_dynamic_view failed on the empty key in a ViewSet that holds a view
C3_Witness ==
    /\ last.op = "create_dynamic_view"
    /\ last.key = ""
    /\ last.raised = ValueError
    /\ _views # <<>>

\* C4: get_view never raises and returns None for a key that is not stored;
\* viewset[key] raises KeyError for such a key; for a stored key both return
\* the view stored under it.
C4_LookupContracts ==
    /\ last.op = "get_view" =>
          /\ last.raised = None
          /\ ~ DictHas(_views, last.key) => last.ret = NoView
          /\ DictHas(_views, last.key) =>
                \E i \in 1..Len(_views) :
                    _views[i].key = last.key /\ _views[i].view = last.ret
    /\ last.op = "__getitem__" =>
          /\ ~ DictHas(_views, last.key) => last.raised = KeyError
          /\ DictHas(_views, last.key) =>
                /\ last.raised = None
                /\ \E i \in 1..Len(_views) :
                      _views[i].key = last.key /\ _views[i].view = last.ret

\* viewset[key] raised KeyError in a ViewSet that holds a view under another key
C4_Witness ==
    /\ last.op = "__getitem__"
    /\ last.key \in Keys
    /\ last.raised = KeyError
    /\ _views # <<>>

\* C5: the view a factory returns is the one stored under its key, its viewset
\* back-reference is this ViewSet, and it appears in `views` and in the typed
\* accessor of its own type.
C5_ReturnedViewIsStored ==
    (last.op \in CreateOps /\ last.raised = None) =>
        /\ last.ret # NoView
        /\ get_view(_views, last.key).value = last.ret
        /\ heap[last.ret].viewset = Authored
        /\ heap[last.ret].type = TypeOfFactory[last.op]
        /\ last.ret \in Range(views(_views))
        /\ last.ret \in Range(_get_typed_views(_views, heap, TypeOfFactory[last.op]))

\* create_filtered_view returned, as the second view of the ViewSet
C5_Witness ==
    /\ last.op = "create_filtered_view"
    /\ last.raised = None
    /\ Len(_views) = 2

-----------------------------------------------------------------------------
(* Properties of hydrate.                                                  *)

\* the views of type t stored in a dict
StoredOfType(d, t) == {v \in StoredViews(d) : heap[v].type = t}

\* the views of the six non-filtered types stored in a dict
StoredNonFiltered(d) == {v \in StoredViews(d) : heap[v].type # "FilteredView"}

\* a record refers to an element or a relationship the model does not hold
DanglingElementView(view_io) ==
    \E i \in view_io.element_views : \A e \in model.elements : e.id # i

DanglingRelationshipView(view_io) ==
    \E i \in view_io.relationship_views : \A r \in model.relationships : r.id # i

\* C6: after hydrate returns, every element view of every non-filtered view of
\* the result holds the model element with the element view's id, and every
\* relationship view the model relationship with the relationship view's id.
C6_ViewsBoundToModel ==
    hpc = "returned" =>
        \A v \in StoredNonFiltered(result) :
            /\ \A ev \in heap[v].element_views :
                  ev.element \in model.elements /\ ev.element.id = ev.id
            /\ \A rv \in heap[v].relationship_views :
                  rv.relationship \in model.relationships /\ rv.relationship.id = rv.id

\* hydrate returned a view with element views and relationship views
C6_Witness ==
    /\ hpc = "returned"
    /\ \E v \in StoredNonFiltered(result) :
          heap[v].element_views # {} /\ heap[v].relationship_views # {}

\* C7: hydrate fails with NotFound, and yields no ViewSet, whenever a record
\* of one of the six non-filtered types carries an element-view id of no
\* element of the model or a relationship-view id of no relationship of it.
C7_DanglingIdFails ==
    \A n \in 1..Len(consumed) :
        ( /\ consumed[n].type # "FilteredView"
          /\ DanglingElementView(consumed[n]) \/ DanglingRelationshipView(consumed[n]) )
        => (hpc = "raised" /\ herr = NotFound /\ result = <<>>)

\* hydrate failed on a record whose element views all resolve and whose
\* relationship view does not
C7_Witness ==
    /\ hpc = "raised"
    /\ herr = NotFound
    /\ \E n \in 1..Len(consumed) :
          /\ consumed[n].type = "DeploymentView"
          /\ consumed[n].element_views # {}
          /\ ~ DanglingElementView(consumed[n])
          /\ DanglingRelationshipView(consumed[n])

\* C8: after hydrate returns, every filtered view of the result holds the view
\* the result stores under its base_view_key; hydrate raises KeyError if the
\* base_view_key of a filtered view of the result is not a key of the result.
C8_FilteredViewsPatched ==
    /\ hpc = "returned" =>
          \A fv \in StoredOfType(result, "FilteredView") :
              \E i \in 1..Len(result) :
                  /\ result[i].key = heap[fv].base_view_key
                  /\ heap[fv].view = result[i].view
    /\ hpc \in {"returned", "raised"} =>
          ( (\E fv \in StoredOfType(result, "FilteredView") :
                \A i \in 1..Len(result) : result[i].key # heap[fv].base_view_key)
            <=> (hpc = "raised" /\ herr = KeyError) )

\* hydrate raised KeyError on a document with a view and a filtered view
C8_Witness ==
    /\ hpc = "raised"
    /\ herr = KeyError
    /\ StoredNonFiltered(result) # {}

\* some filtered view has been bound to a view
SomeFilteredViewBound ==
    \E v \in 1..Len(heap) : heap[v].type = "FilteredView" /\ heap[v].view # NoView

\* C9: filtered views are bound to their base views only after all six lists
\* of non-filtered records have been read and every view hydrated from them is
\* registered in the result, so the base key of a view of any of the six
\* types resolves.
C9_PatchAfterAllHydrated ==
    (hpc = "patch" \/ SomeFilteredViewBound) =>
        /\ htype = Len(TypeOrder)
        /\ \A i \in 1..Len(TypeOrder) : \A v \in Range(lists[i]) :
              \E j \in 1..Len(result) : result[j].key = heap[v].key
        /\ \A n \in 1..Len(consumed) :
              \E i \in 1..Len(TypeOrder) : \E v \in Range(lists[i]) :
                  heap[v].type = consumed[n].type /\ heap[v].key = consumed[n].key

\* hydrate returned a filtered view bound to a dynamic view, the last of the
\* six types hydrated
C9_Witness ==
    /\ hpc = "returned"
    /\ \E fv \in StoredOfType(result, "FilteredView") :
          /\ heap[fv].view # NoView
          /\ heap[heap[fv].view].type = "DynamicView"

-----------------------------------------------------------------------------
(* The round trip of the view catalog.                                     *)

\* the key, type, element ids, relationship ids and base view key of a view
Catalogued(view) ==
    [key |-> view.key, type |-> view.type,
     element_ids |-> {ev.id : ev \in view.element_views},
     relationship_ids |-> {rv.id : rv \in view.relationship_views},
     base_view_key |-> view.base_view_key]

Catalog(d) == {Catalogued(heap[v]) : v \in StoredViews(d)}

\* hydrate of the serialized ViewSet has ended
RoundTripEnded == doc.known /\ hpc \in {"returned", "raised"}

\* C10: hydrating the serialized form of a ViewSet built with the factories,
\* against the same model, yields a ViewSet with the same keys, the same
\* type per key, the same element ids and relationship ids per view and the
\* same base view key per filtered view.
C10_RoundTrip ==
    RoundTripEnded => (hpc = "returned" /\ Catalog(result) = Catalog(_views))

-----------------------------------------------------------------------------
(* Failure of hydrate.                                                     *)

\* the anchor id of a record of a non-filtered type names nothing in the model
DanglingAnchor(view_io) ==
    CASE view_io.type \in {"SystemContextView", "ContainerView"} ->
            \A e \in model.elements :
                e.kind = "SoftwareSystem" => e.id # view_io.anchor_id
      [] view_io.type = "ComponentView" ->
            \A e \in model.elements : e.id # view_io.anchor_id
      [] view_io.type = "DynamicView" ->
            /\ view_io.anchor_id # None
            /\ view_io.anchor_id # ""
            /\ \A e \in model.elements : e.id # view_io.anchor_id
      [] OTHER -> FALSE

Unresolved(view_io) ==
    /\ view_io.type # "FilteredView"
    /\ \/ DanglingAnchor(view_io)
       \/ DanglingElementView(view_io)
       \/ DanglingRelationshipView(view_io)

\* the view hydrated from a record, with every reference bound
HydratedFrom(view, view_io) ==
    /\ view.type = view_io.type
    /\ view.key = view_io.key
    /\ {ev.id : ev \in view.element_views} = view_io.element_views
    /\ {rv.id : rv \in view.relationship_views} = view_io.relationship_views
    /\ \A ev \in view.element_views : ev.element \in model.elements
    /\ \A rv \in view.relationship_views : rv.relationship \in model.relationships

\* the filtered views of the result, in the order the patch loop visits them
FilteredInOrder == SelectSeq(DictValues(result), LAMBDA v : heap[v].type = "FilteredView")

BaseKeyMissing(fv) ==
    \A i \in 1..Len(result) : result[i].key # heap[fv].base_view_key

\* C11: the first unresolved id (anchor, element view, relationship view or
\* filtered base key) aborts hydrate: the failing record is the last one read,
\* the views bound before it stay bound, the filtered views after the failing
\* one stay unbound, and no ViewSet is returned.
C11_FirstFailureAborts ==
    /\ \A n \in 1..Len(consumed) :
          Unresolved(consumed[n]) =>
              /\ n = Len(consumed)
              /\ hpc = "raised"
              /\ herr = NotFound
              /\ result = <<>>
    /\ (hpc = "raised" /\ herr = NotFound) =>
          /\ Unresolved(consumed[Len(consumed)])
          /\ Len(heap) = Len(consumed) - 1
          /\ \A n \in 1..Len(heap) : HydratedFrom(heap[n], consumed[n])
    /\ (hpc = "raised" /\ herr = KeyError) =>
          \E n \in 1..Len(FilteredInOrder) :
              /\ BaseKeyMissing(FilteredInOrder[n])
              /\ \A j \in 1..Len(FilteredInOrder) :
                    /\ j < n => heap[FilteredInOrder[j]].view # NoView
                    /\ j >= n => heap[FilteredInOrder[j]].view = NoView
    /\ hpc = "raised" => herr \in {NotFound, KeyError}
    /\ hpc = "returned" =>
          /\ herr = None
          /\ \A fv \in StoredOfType(result, "FilteredView") : ~ BaseKeyMissing(fv)

\* hydrate failed on its second record; the view of the first is left bound
C11_Witness ==
    /\ hpc = "raised"
    /\ herr = NotFound
    /\ Len(consumed) = 2
    /\ Len(heap) = 1
    /\ heap[1].element_views # {}
    /\ DanglingAnchor(consumed[2])

-----------------------------------------------------------------------------
(* Copying layout information.                                             *)

\* the ViewSet is authored, the earlier generation loaded, the layout copied
HydrateSource ==
    \/ \E view_io \in SourceViewIOs(TypeOrder[htype]) : HydrateRecord(view_io)
    \/ \E view_io \in SourceViewIOs(TypeOrder[htype]) : HydrateFilteredRecord(view_io)
    \/ HydrateEndOfList
    \/ HydrateConstruct
    \/ HydratePatch

\* the destination is authored with views of a type of View and filtered views
CreateForLayout ==
    \/ \E k \in Keys \ DictKeys(_views) : create_system_landscape_view(NoView, k)
    \/ \E k \in Keys \ DictKeys(_views) : create_filtered_view(k, k)

\* layout is copied without a look at the model: the smaller one will do
InitLayout == Init /\ model.relationships = {}

NextLayout ==
    \/ CreateForLayout
    \/ \E v \in Instances("SystemLandscapeView") : AddAllElements(v)
    \/ LoadSource
    \/ HydrateSource
    \/ CopyLayout

SpecLayout == InitLayout /\ [][NextLayout]_vars


\* the views of the source with the key and the concrete type of a view
Matching(destination_view) ==
    {sv \in StoredViews(result) :
        /\ heap[sv].key = heap[destination_view].key
        /\ heap[sv].type = heap[destination_view].type}

\* C12: copy_layout_information_from copies layout into a view of this
\* ViewSet for every view of the source whose key and concrete type both
\* match it, and for no other view.
C12_CopiedIffKeyAndTypeMatch ==
    hpc = "copied" =>
        \A dv \in StoredViews(_views) :
            heap[dv].layout = ManualLayout <=> Matching(dv) # {}

\* C12 as amended: the copy is made for every source view whose key and
\* concrete type match a view of this ViewSet that is not a FilteredView, and
\* for no other view.
C12_CopiedIffViewOfKeyAndTypeMatch ==
    hpc = "copied" =>
        \A dv \in StoredViews(_views) :
            heap[dv].layout = ManualLayout
                <=> (heap[dv].type # "FilteredView" /\ Matching(dv) # {})

\* after the copy one view has the layout of its match and another, whose key
\* the source holds under another type, has not
C12_Witness ==
    /\ hpc = "copied"
    /\ \E dv \in StoredViews(_views) :
          heap[dv].layout = ManualLayout /\ Matching(dv) # {}
    /\ \E dv \in StoredViews(_views) :
          /\ heap[dv].layout = DefaultLayout
          /\ heap[dv].type # "FilteredView"
          /\ \E sv \in StoredViews(result) :
                heap[sv].key = heap[dv].key /\ heap[sv].type # heap[dv].type

\* C13: copy_layout_information_from changes layout only: the keys of the
\* destination, the view under each key, the type and the membership of each
\* view stay, no view is added or removed, and the source is not modified.
C13_OnlyLayoutChanges ==
    [][ (hpc = "returned" /\ hpc' = "copied") =>
            /\ _views' = _views
            /\ result' = result
            /\ model' = model
            /\ Len(heap') = Len(heap)
            /\ \A v \in 1..Len(heap) :
                  [heap'[v] EXCEPT !.layout = heap[v].layout] = heap[v]
            /\ \A sv \in StoredViews(result) : heap'[sv] = heap[sv] ]_vars

\* a populated view of the destination has received the layout of its match
C13_Witness ==
    /\ hpc = "copied"
    /\ \E dv \in StoredViews(_views) :
          /\ heap[dv].layout = ManualLayout
          /\ heap[dv].element_views # {}

-----------------------------------------------------------------------------
(* The typed accessors.                                                    *)

\* system_landscape_views, ..., filtered_views, as the sets they iterate over
TypedViews(i) == Range(_get_typed_views(_views, heap, TypeOrder[i]))

\* C14: the seven typed accessors partition `views`: each yields exactly the
\* stored views of its type, each view once, no view is yielded by two of
\* them, and together they yield all stored views.
C14_TypedAccessorsPartition ==
    /\ \A i \in 1..Len(TypeOrder) :
          /\ TypedViews(i) = {v \in Range(views(_views)) : heap[v].type = TypeOrder[i]}
          /\ Len(_get_typed_views(_views, heap, TypeOrder[i])) = Cardinality(TypedViews(i))
    /\ \A i, j \in 1..Len(TypeOrder) : i # j => TypedViews(i) \cap TypedViews(j) = {}
    /\ UNION {TypedViews(i) : i \in 1..Len(TypeOrder)} = Range(views(_views))

\* the ViewSet holds a filtered view and a view of another type
C14_Witness ==
    /\ Len(_views) = 2
    /\ TypedViews(7) # {}
    /\ \E i \in 1..6 : TypedViews(i) # {}

-----------------------------------------------------------------------------
(* The model reference of a created view.                                  *)

\* C15: after create_system_landscape_view, create_deployment_view or
\* create_dynamic_view returns, the model reference of the returned view is the
\* model of the ViewSet.
C15_ModelBound ==
    ( /\ last.op \in {"create_system_landscape_view", "create_deployment_view",
                      "create_dynamic_view"}
      /\ last.raised = None )
    => heap[last.ret].model = ModelRef

-----------------------------------------------------------------------------
(* Authoring a model.                                                      *)

\* a workspace with an empty model and an empty ViewSet
InitWorkspace ==
    /\ model = [elements |-> {}, relationships |-> {}]
    /\ heap = <<>>
    /\ _views = <<>>
    /\ last = NoCall
    /\ returned = 0
    /\ doc = [known |-> TRUE, lists |-> EmptyLists]
    /\ consumed = <<>>
    /\ hpc = "idle"
    /\ htype = 1
    /\ lists = EmptyLists
    /\ result = <<>>
    /\ herr = None

IdInputs == ExplicitIds \cup {NotGiven}

\* elements with supplied and generated ids, relationships of every shape
AddElements ==
    \/ \E id \in IdInputs : add_person(id)
    \/ \E id \in IdInputs : add_software_system(id)
    \/ \E id \in IdInputs, s \in model.elements : add_container(s, id)
    \/ \E id \in IdInputs, c \in model.elements : add_component(c, id)

AddRelationships ==
    \/ \E a, b \in model.elements : uses(a, b, NotGiven, NotGiven, NotGiven)
    \/ \E a, b \in model.elements : uses(a, b, "d", "t", Asynchronous)
    \/ \E a, b \in model.elements : delivers(a, b, "d")
    \/ \E a, b \in model.elements : add_relationship(a, b, DanglingId)

NextWorkspace ==
    \/ ItemCount < MaxItems /\ AddElements
    \/ ItemCount < MaxItems /\ AddRelationships

SpecWorkspace == InitWorkspace /\ [][NextWorkspace]_vars

\* people who use one another, and a view on the neighbourhood of one of them
NextNeighbours ==
    \/ Cardinality(model.elements) < MaxElements /\ add_person(NotGiven)
    \/ /\ Cardinality(model.relationships) < MaxRelationships
       /\ \E a, b \in model.elements : uses(a, b, NotGiven, NotGiven, NotGiven)
    \/ /\ _views = <<>>
       /\ model.elements # {}
       /\ create_system_landscape_view(NoView, KeyPool[1])
    \/ \E v \in 1..Len(heap), x \in model.elements : AddNearestNeighbours(v, x)

SpecNeighbours == InitWorkspace /\ [][NextNeighbours]_vars

-----------------------------------------------------------------------------
(* Properties of the authored model.                                       *)

\* the elements one relationship away from x, in either direction
Neighbours(x) ==
    {y \in model.elements :
        \E r \in model.relationships :
            \/ r.source_id = x.id /\ r.destination_id = y.id
            \/ r.source_id = y.id /\ r.destination_id = x.id}

\* C16: add_nearest_neighbours(x) on an empty view populates exactly x and
\* every element with a relationship to or from x, each once, and no element
\* two or more hops away; with A.uses(B) alone, add_nearest_neighbours(B)
\* yields exactly A, B and the one relationship.
C16_NearestNeighbours ==
    last.op = "add_nearest_neighbours" =>
        \A v \in StoredViews(_views) :
            LET x == last.item
                populated == {ev.element : ev \in heap[v].element_views}
            IN /\ populated = {x} \cup Neighbours(x)
               /\ \A ev \in heap[v].element_views : ev.id = ev.element.id
               /\ Cardinality(heap[v].element_views) = Cardinality(populated)
               /\ ( /\ Cardinality(model.relationships) = 1
                    /\ \E r \in model.relationships :
                          r.destination_id = x.id /\ r.source_id # x.id )
                  => /\ Cardinality(populated) = 2
                     /\ {rv.relationship : rv \in heap[v].relationship_views}
                            = model.relationships

\* the view on the neighbourhood of the first of three people in a chain
\* leaves out the third
C16_Witness ==
    /\ last.op = "add_nearest_neighbours"
    /\ Cardinality(model.elements) = 3
    /\ \E v \in StoredViews(_views) : Cardinality(heap[v].element_views) = 2
    /\ \E r, q \in model.relationships :
          /\ r.source_id = last.item.id
          /\ r.destination_id # last.item.id
          /\ q.source_id = r.destination_id
          /\ q.destination_id \notin {r.source_id, r.destination_id}

ElementOps == {"add_person", "add_software_system", "add_container", "add_component"}

RelationshipOps == {"uses", "delivers", "add_relationship"}

\* C17: get_element(e.id) returns e for every element e added through
\* add_person, add_software_system, add_container or add_component, right
\* after its creation and after any later additions.
C17_GetElementReturnsElement ==
    /\ \A e \in model.elements : get_element(model, e.id) = Ok(e)
    /\ (last.op \in ElementOps /\ last.raised = None) =>
          /\ last.item \in model.elements
          /\ get_element(model, last.item.id) = Ok(last.item)

\* a component was added after elements with a supplied and a generated id
C17_Witness ==
    /\ last.op = "add_component"
    /\ last.raised = None
    /\ last.key = NotGiven
    /\ \E e \in model.elements : e.id \in ExplicitIds
    /\ Cardinality(model.elements) >= 3

\* C18: no two live items share an id; an id already registered is refused
\* with DuplicateIdentifier; a generated id never collides with an id
\* supplied earlier.
C18_IdsUnique ==
    /\ ItemCount = returned
    /\ Cardinality(RegisteredIds(model)) = returned
    /\ (last.op \in ElementOps /\ last.held) =>
          (last.raised = DuplicateIdentifier /\ last.item = NoElement)
    /\ (last.op \in ElementOps \cup RelationshipOps /\ last.key = NotGiven) =>
          last.raised = None

\* an id was supplied, later ids were generated past it, and the supplied id
\* was then refused
C18_Witness ==
    /\ last.op \in ElementOps
    /\ last.raised = DuplicateIdentifier
    /\ \E e \in model.elements : e.id \in ExplicitIds
    /\ \E e \in model.elements : e.id \notin ExplicitIds
    /\ model.relationships # {}


\* C19: source.uses(destination, ...) creates exactly one new Relationship,
\* with the receiver as source and the target as destination; with no
\* interaction style given the style is Synchronous, with no description or
\* technology given they are empty.
C19_UsesCreatesOneRelationship ==
    [][ (last' # last /\ last'.op = "uses") =>
            LET r == last'.item
                given == last'.args
            IN /\ r \notin model.relationships
               /\ model'.relationships = model.relationships \cup {r}
               /\ model'.elements = model.elements
               /\ r.source_id = given.source
               /\ r.destination_id = given.destination
               /\ r.interaction_style =
                     IF given.interaction_style = NotGiven
                     THEN Synchronous ELSE given.interaction_style
               /\ r.description =
                     IF given.description = NotGiven THEN "" ELSE given.description
               /\ r.technology =
                     IF given.technology = NotGiven THEN "" ELSE given.technology
      ]_vars

\* uses was called with a destination only, between two distinct elements
C19_Witness ==
    /\ last.op = "uses"
    /\ last.args.interaction_style = NotGiven
    /\ last.args.description = NotGiven
    /\ last.args.source # last.args.destination
    /\ last.item.interaction_style = Synchronous
    /\ last.item \in model.relationships

\* two relationships alike in source, destination and description
Alike(r, q) ==
    /\ r.source_id = q.source_id
    /\ r.destination_id = q.destination_id
    /\ r.description = q.description

\* C20: the relationship store is append-only: every relationship created
\* stays retrievable by its id with its source and destination; a relationship
\* alike in source, destination and description to a stored one is stored
\* beside it under another id; a linked_relationship_id that names no
\* relationship is accepted.
C20_RelationshipsAppendOnly ==
    [][ /\ \A r \in model.relationships :
              /\ get_relationship(model', r.id).raised = None
              /\ get_relationship(model', r.id).value.source_id = r.source_id
              /\ get_relationship(model', r.id).value.destination_id = r.destination_id
        /\ (last' # last /\ last'.op \in RelationshipOps) =>
              /\ last'.raised = None
              /\ last'.item \in model'.relationships
              /\ \A q \in model.relationships :
                    Alike(q, last'.item) =>
                        (q \in model'.relationships /\ q.id # last'.item.id)
              /\ last'.op = "add_relationship" =>
                    /\ last'.item.linked_relationship_id = DanglingId
                    /\ get_relationship(model', DanglingId).raised = NotFound
      ]_vars

\* the store holds two relationships alike under two ids, and one linked to a
\* relationship that does not exist
C20_Witness ==
    /\ \E r, q \in model.relationships : r.id # q.id /\ Alike(r, q)
    /\ \E r \in model.relationships :
          /\ r.linked_relationship_id = DanglingId
          /\ get_relationship(model, DanglingId).raised = NotFound

-----------------------------------------------------------------------------
(* Loading a workspace: the model is reconstructed item by item, and        *)
(* ViewSet.hydrate is called on the model as it stands at that moment.      *)

\* the model of the document being loaded
CompleteModel == [elements |-> {PersonA, SystemB, ContainerC}, relationships |-> {UsesAB}]

\* the model with the first n items of the document reconstructed
Reconstructed(n) ==
    [elements |-> {e \in CompleteModel.elements : \E k \in 1..n : IdPool[k] = e.id},
     relationships |->
        {r \in CompleteModel.relationships : \E k \in 1..n : IdPool[k] = r.id}]

ItemsOfDocument ==
    Cardinality(CompleteModel.elements) + Cardinality(CompleteModel.relationships)

\* a record resolves against model m: anchor, element views, relationship views
ResolvesIn(view_io, m) ==
    \/ view_io.type = "FilteredView"
    \/ /\ ResolveAnchor(view_io.type, view_io, m).raised = None
       /\ \A i \in view_io.element_views : get_element(m, i).raised = None
       /\ \A i \in view_io.relationship_views : get_relationship(m, i).raised = None

\* the records of a document whose ids all name items of its own model
ConsistentViewIOs(t) ==
    {view_io \in ViewIOs(t) :
        /\ ResolvesIn(view_io, CompleteModel)
        /\ view_io.base_view_key # DanglingKey}

\* the call ViewSet.hydrate(views, model), with the model as it is handed over
HydrateCall(m) ==
    [op |-> "hydrate", key |-> None, arg |-> NoView, held |-> FALSE,
     raised |-> None, ret |-> NoView, model |-> m]

\* the next item of the document's model is reconstructed and registered;
\* nothing runs while hydrate does
ReconstructItem ==
    /\ hpc \in {"idle", "returned", "raised"}
    /\ \E n \in 0..(ItemsOfDocument - 1) :
          /\ model = Reconstructed(n)
          /\ model' = Reconstructed(n + 1)
    /\ UNCHANGED <<heap, _views, last, returned, hydrateVars>>

\* the loader calls ViewSet.hydrate(views, model)
CallHydrate ==
    /\ hpc = "idle"
    /\ hpc' = "loop"
    /\ last' = HydrateCall(model)
    /\ UNCHANGED <<model, heap, _views, returned, doc, consumed, htype, lists,
                   result, herr>>

HydrateConsistent ==
    \/ \E view_io \in ConsistentViewIOs(TypeOrder[htype]) : HydrateRecord(view_io)
    \/ \E view_io \in ConsistentViewIOs(TypeOrder[htype]) :
          HydrateFilteredRecord(view_io)
    \/ HydrateEndOfList
    \/ HydrateConstruct
    \/ HydratePatch

InitLoad ==
    /\ model = Reconstructed(0)
    /\ heap = <<>>
    /\ _views = <<>>
    /\ last = NoCall
    /\ returned = 0
    /\ doc = [known |-> FALSE, lists |-> EmptyLists]
    /\ consumed = <<>>
    /\ hpc = "idle"
    /\ htype = 1
    /\ lists = EmptyLists
    /\ result = <<>>
    /\ herr = None

NextLoad ==
    \/ ReconstructItem
    \/ CallHydrate
    \/ HydrateConsistent

SpecLoad == InitLoad /\ [][NextLoad]_vars

-----------------------------------------------------------------------------
(* The exchange document: external keys of ViewSetIO and Relationship.      *)
(* A raw document is a function from the keys it carries to their values.   *)

ValidationError == "ValidationError"

\* the seven list fields under their own names as keys, no alias declared
ViewSetIOFieldsUnaliased ==
    <<[name |-> "system_landscape_views", alias |-> "system_landscape_views"],
      [name |-> "system_context_views", alias |-> "system_context_views"],
      [name |-> "container_views", alias |-> "container_views"],
      [name |-> "component_views", alias |-> "component_views"],
      [name |-> "deployment_views", alias |-> "deployment_views"],
      [name |-> "dynamic_views", alias |-> "dynamic_views"],
      [name |-> "filtered_views", alias |-> "filtered_views"]>>

\* the list fields ViewSetIO declares, by view type as in TypeOrder, each with
\* the alias it is read from and written to
ViewSetIOFields ==
    <<[name |-> "system_landscape_views", alias |-> "systemLandscapeViews"],
      [name |-> "system_context_views", alias |-> "systemContextViews"],
      [name |-> "container_views", alias |-> "containerViews"],
      [name |-> "component_views", alias |-> "componentViews"],
      [name |-> "deployment_views", alias |-> "deploymentViews"],
      [name |-> "dynamic_views", alias |-> "dynamicViews"],
      [name |-> "filtered_views", alias |-> "filteredViews"]>>

\* the field of ViewSetIO that has no default
ConfigurationKey == "configuration"

\* ViewSetIO(**raw): each list from the key of its alias, () where the
\* document has no such key; a document without configuration is rejected
ParseViewSetIO(raw) ==
    IF ConfigurationKey \notin DOMAIN raw
    THEN Raise(ValidationError, EmptyLists)
    ELSE Ok([i \in 1..Len(ViewSetIOFields) |->
                IF ViewSetIOFields[i].alias \in DOMAIN raw
                THEN raw[ViewSetIOFields[i].alias]
                ELSE <<>>])

\* the aliased fields of Relationship: field name, alias and default
RelationshipFields ==
    <<[name |-> "source_id", alias |-> "sourceId", default |-> ""],
      [name |-> "destination_id", alias |-> "destinationId", default |-> ""],
      [name |-> "interaction_style", alias |-> "interactionStyle",
       default |-> Synchronous],
      [name |-> "linked_relationship_id", alias |-> "linkedRelationshipId",
       default |-> ""]>>

\* the value a raw document gives field n of Relationship
RelationshipField(raw, n) ==
    IF RelationshipFields[n].alias \in DOMAIN raw
    THEN raw[RelationshipFields[n].alias]
    ELSE RelationshipFields[n].default

\* Relationship(**raw)
ParseRelationship(raw) ==
    Relationship(raw["id"], RelationshipField(raw, 1), RelationshipField(raw, 2),
                 NotGiven, NotGiven, RelationshipField(raw, 3),
                 RelationshipField(raw, 4))

\* the record of type TypeOrder[i] a raw document carries in its list i
SampleViewIO(i) ==
    ViewIORecord(TypeOrder[i], KeyPool[1 + (i % 2)],
                 CASE TypeOrder[i] \in {"SystemContextView", "ContainerView",
                                        "ComponentView"} -> "2"
                   [] TypeOrder[i] = "DynamicView" -> ""
                   [] OTHER -> None,
                 IF TypeOrder[i] = "FilteredView" THEN {} ELSE {"2"}, {},
                 IF TypeOrder[i] = "FilteredView" THEN KeyPool[1] ELSE None,
                 ManualLayout)

\* the keys a raw views document may carry
RawViewSetKeys ==
    {ViewSetIOFields[i].alias : i \in 1..Len(ViewSetIOFields)} \cup {ConfigurationKey}

\* the value a raw views document carries under a key: one record or none
RawValue(k, full) ==
    IF k = ConfigurationKey THEN <<>>
    ELSE IF k \in full
    THEN <<SampleViewIO(CHOOSE i \in 1..Len(ViewSetIOFields) :
                            ViewSetIOFields[i].alias = k)>>
    ELSE <<>>

\* raw views documents: any of the keys absent, present and empty, or filled
RawViewSets ==
    UNION {{[k \in ks |-> RawValue(k, full)] : full \in SUBSET ks} :
              ks \in SUBSET RawViewSetKeys}

RawRelationshipValues ==
    [sourceId |-> "1", destinationId |-> "2", interactionStyle |-> Asynchronous,
     linkedRelationshipId |-> DanglingId, id |-> "4"]

\* raw relationships: any of the aliased keys absent
RawRelationships ==
    {[k \in ks \cup {"id"} |-> RawRelationshipValues[k]] :
        ks \in SUBSET {RelationshipFields[n].alias : n \in 1..Len(RelationshipFields)}}

\* what was parsed from which raw document
ParseCall(op, raw, raised, parsed) ==
    [op |-> op, key |-> None, arg |-> NoView, held |-> FALSE, raised |-> raised,
     ret |-> NoView, raw |-> raw, parsed |-> parsed]

\* the loader stops at the first document that is rejected
Loading == Authoring /\ last.raised = None

\* a raw views document is parsed and, if valid, handed to hydrate
LoadViewSetIO(raw) ==
    /\ Loading
    /\ LET r == ParseViewSetIO(raw) IN
       /\ last' = ParseCall("ViewSetIO", raw, r.raised, r.value)
       /\ IF r.raised # None
          THEN UNCHANGED <<doc, hpc>>
          ELSE /\ doc' = [known |-> TRUE, lists |-> r.value]
               /\ hpc' = "loop"
    /\ UNCHANGED <<model, heap, _views, returned, consumed, htype, lists, result,
                   herr>>

\* a raw relationship is parsed
LoadRelationship(raw) ==
    /\ Loading
    /\ last' = ParseCall("Relationship", raw, None, ParseRelationship(raw))
    /\ UNCHANGED <<model, heap, _views, returned, hydrateVars>>

NextExchange ==
    \/ \E raw \in RawViewSets : LoadViewSetIO(raw)
    \/ \E raw \in RawRelationships : LoadRelationship(raw)
    \/ HydrateGiven
    \/ HydrateEndOfList
    \/ HydrateConstruct
    \/ HydratePatch

SpecExchange == Init /\ [][NextExchange]_vars

\* what a raw document carries under a key, or a default
Carried(raw, k, default) == IF k \in DOMAIN raw THEN raw[k] ELSE default

\* C22: the exchange document uses fixed external keys: a Relationship's
\* source_id, destination_id, interaction_style and linked_relationship_id are
\* read from sourceId, destinationId, interactionStyle, linkedRelationshipId;
\* the seven view lists of a ViewSet from systemLandscapeViews,
\* systemContextViews, containerViews, componentViews, deploymentViews,
\* dynamicViews, filteredViews, one list per view type, an absent list empty.
C22_ExternalKeys ==
    /\ (last.op = "ViewSetIO" /\ last.raised = None) =>
          /\ last.parsed =
                <<Carried(last.raw, "systemLandscapeViews", <<>>),
                  Carried(last.raw, "systemContextViews", <<>>),
                  Carried(last.raw, "containerViews", <<>>),
                  Carried(last.raw, "componentViews", <<>>),
                  Carried(last.raw, "deploymentViews", <<>>),
                  Carried(last.raw, "dynamicViews", <<>>),
                  Carried(last.raw, "filteredViews", <<>>)>>
          /\ \A i \in 1..Len(TypeOrder) : \A n \in 1..Len(last.parsed[i]) :
                last.parsed[i][n].type = TypeOrder[i]
    /\ last.op = "Relationship" =>
          /\ last.parsed.source_id = Carried(last.raw, "sourceId", "")
          /\ last.parsed.destination_id = Carried(last.raw, "destinationId", "")
          /\ last.parsed.interaction_style =
                Carried(last.raw, "interactionStyle", Synchronous)
          /\ last.parsed.linked_relationship_id =
                Carried(last.raw, "linkedRelationshipId", "")

\* a document with a container view, an empty list of component views and no
\* key for dynamic views has been parsed and hydrated
C22_Witness ==
    /\ last.op = "ViewSetIO"
    /\ last.raised = None
    /\ "dynamicViews" \notin DOMAIN last.raw
    /\ "componentViews" \in DOMAIN last.raw
    /\ last.parsed[3] # <<>>
    /\ last.parsed[4] = <<>>
    /\ last.parsed[6] = <<>>
    /\ hpc = "returned"
    /\ StoredOfType(result, "ContainerView") # {}

-----------------------------------------------------------------------------
(* A factory that raises.                                                   *)

\* C23: a create_<type>_view call that raises ValueError for an empty or
\* duplicate key leaves the ViewSet as it was: the same keys, the same view
\* under every key, every view unchanged; a view instance the caller supplied
\* does not get its viewset back-reference bound.
C23_FailedCreateChangesNothing ==
    [][ (last' # last /\ last'.op \in CreateOps /\ last'.raised = ValueError) =>
            /\ _views' = _views
            /\ heap' = heap
            /\ returned' = returned
            /\ last'.arg # NoView =>
                  heap'[last'.arg].viewset = heap[last'.arg].viewset
      ]_vars

\* create_system_landscape_view was handed an unregistered instance whose key
\* is taken, and raised: the instance is still unbound, the stored view stays
C23_Witness ==
    /\ last.op = "create_system_landscape_view"
    /\ last.arg # NoView
    /\ last.held
    /\ last.raised = ValueError
    /\ heap[last.arg].viewset = None
    /\ DictGet(_views, last.key) # last.arg

-----------------------------------------------------------------------------
(* Keys of a hydrated document.                                             *)

\* the keys a record may carry when nothing has checked them
UncheckedKeys == DocKeys \cup {""}

\* records whose ids all resolve, with keys that may repeat or be empty
KeyedViewIOs(t) ==
    IF t = "FilteredView"
    THEN {ViewIORecord(t, k, None, {}, {}, b, ManualLayout) :
            k \in UncheckedKeys, b \in UncheckedKeys}
    ELSE {ViewIORecord(t, k,
                       CASE t \in {"SystemContextView", "ContainerView",
                                   "ComponentView"} -> "2"
                         [] t = "DynamicView" -> ""
                         [] OTHER -> None,
                       ids, {}, None, ManualLayout) :
            k \in UncheckedKeys, ids \in {{}, {"2"}}}

HydrateKeyed ==
    \/ \E view_io \in KeyedViewIOs(TypeOrder[htype]) : HydrateRecord(view_io)
    \/ \E view_io \in KeyedViewIOs(TypeOrder[htype]) : HydrateFilteredRecord(view_io)
    \/ HydrateEndOfList
    \/ HydrateConstruct
    \/ HydratePatch

NextHydrateKeyed == HydrateKeyed

SpecHydrateKeyed == InitHydrate /\ [][NextHydrateKeyed]_vars

\* the ViewSet has been constructed from the hydrated views
Constructed == hpc \in {"patch", "returned"} \/ (hpc = "raised" /\ herr = KeyError)

\* the last record read that carries key k
LastWithKey(k) ==
    CHOOSE n \in 1..Len(consumed) :
        /\ consumed[n].key = k
        /\ \A j \in (n + 1)..Len(consumed) : consumed[j].key # k

\* C24: hydrate and the constructor check no key: records with the same key,
\* in one list or in two, raise no error, and the ViewSet holds under that key
\* one view, that of the record last in the order system landscape, system
\* context, container, component, deployment, dynamic, filtered; a record
\* with an empty key is accepted like any other.
C24_LastViewOfKeyWins ==
    /\ herr # ValueError
    /\ hpc = "raised" =>
          /\ herr = KeyError
          /\ \E fv \in StoredOfType(result, "FilteredView") : BaseKeyMissing(fv)
    /\ Constructed =>
          /\ DictKeys(result) = {consumed[n].key : n \in 1..Len(consumed)}
          /\ \A i, j \in 1..Len(result) : result[i].key = result[j].key => i = j
          /\ \A i \in 1..Len(result) :
                LET n == LastWithKey(result[i].key) IN
                /\ result[i].view = n
                /\ heap[n].key = consumed[n].key
                /\ heap[n].type = consumed[n].type

\* hydrate returned a ViewSet made from two records of two types, both with
\* the empty key: it holds the view of the second
C24_Witness ==
    /\ hpc = "returned"
    /\ Len(consumed) = 2
    /\ consumed[1].key = ""
    /\ consumed[2].key = ""
    /\ consumed[1].type # consumed[2].type
    /\ Len(result) = 1
    /\ result[1].view = 2

-----------------------------------------------------------------------------
(* The viewset back-reference.                                              *)

\* the views hydrate has reconstructed so far
HydratedViews == UNION {Range(lists[i]) : i \in 1..Len(TypeOrder)}

\* C25: only the create_<type>_view methods bind the viewset back-reference
\* of a view: a view of the authored ViewSet is bound to it, while a view that
\* hydrate reconstructs and the constructor stores is bound to no ViewSet,
\* before and after the ViewSet is constructed and returned.
C25_OnlyFactoriesBindViewset ==
    /\ \A v \in StoredViews(_views) : heap[v].viewset = Authored
    /\ \A v \in HydratedViews : heap[v].viewset = None
    /\ \A v \in StoredViews(result) : v \in HydratedViews /\ heap[v].viewset = None

\* hydrate has returned a ViewSet with a filtered view and its base view, made
\* from the document of an authored ViewSet whose views are bound
C25_Witness ==
    /\ hpc = "returned"
    /\ Len(_views) = 2
    /\ Len(result) = 2
    /\ StoredOfType(result, "FilteredView") # {}
    /\ \A v \in StoredViews(result) : heap[v].viewset = None
    /\ \A v \in StoredViews(_views) : heap[v].viewset = Authored

-----------------------------------------------------------------------------
(* The order in which hydrate reads a document.                             *)

\* the anchor id of a record of type t that every model resolves
ResolvingAnchor(t) ==
    CASE t \in {"SystemContextView", "ContainerView", "ComponentView"} -> "2"
      [] t = "DynamicView" -> ""
      [] OTHER -> None

\* the records of type t of a document given in full: one that resolves, and
\* one for each way a record can fail to
OrderedViewIOs(t) ==
    IF t = "FilteredView"
    THEN {ViewIORecord(t, KeyPool[1], None, {}, {}, KeyPool[1], ManualLayout)}
    ELSE {ViewIORecord(t, KeyPool[1], ResolvingAnchor(t), refs.elements,
                       refs.relationships, None, ManualLayout) :
            refs \in {r \in ViewRefs : r.relationships \subseteq {DanglingId}}}
         \cup
         (IF ResolvingAnchor(t) = None THEN {}
          ELSE {ViewIORecord(t, KeyPool[1], DanglingId, {}, {}, None, ManualLayout)})

\* the records of a document, in the order of the document
Flats ==
    UNION {[1..n -> UNION {OrderedViewIOs(t) : t \in ConcreteView}] :
              n \in 0..MaxDocViews}

\* the seven lists of the document with these records
ListsOf(flat) ==
    [i \in 1..Len(TypeOrder) |-> SelectSeq(flat, LAMBDA r : r.type = TypeOrder[i])]

\* the call ViewSet.hydrate(views, model) with the document it is given
HydrateDocumentCall(document) ==
    [op |-> "hydrate", key |-> None, arg |-> NoView, held |-> FALSE,
     raised |-> None, ret |-> NoView, document |-> document]

\* hydrate is called with a document
GiveDocument(document) ==
    /\ Authoring
    /\ doc' = [known |-> TRUE, lists |-> document]
    /\ last' = HydrateDocumentCall(document)
    /\ hpc' = "loop"
    /\ UNCHANGED <<model, heap, _views, returned, consumed, htype, lists, result,
                   herr>>

NextOrder ==
    \/ \E flat \in Flats : GiveDocument(ListsOf(flat))
    \/ HydrateGiven
    \/ HydrateEndOfList
    \/ HydrateConstruct
    \/ HydratePatch

SpecOrder == Init /\ [][NextOrder]_vars

\* the records of the document hydrate was given: all system landscape
\* records, then system context, container, component, deployment, dynamic,
\* filtered, each list in document order
InOrder ==
    last.document[1] \o last.document[2] \o last.document[3] \o last.document[4]
        \o last.document[5] \o last.document[6] \o last.document[7]

\* C26: hydrate reads the records in a fixed order of types (system landscape,
\* system context, container, component, deployment, dynamic, filtered) and,
\* within a type, in document order; it fails at the first record in this
\* order that does not resolve, whatever records further on do not resolve
\* either, and reads nothing past it.
C26_RecordsReadInOrder ==
    last.op = "hydrate" =>
        /\ Len(consumed) <= Len(InOrder)
        /\ \A n \in 1..Len(consumed) : consumed[n] = InOrder[n]
        /\ hpc \in {"construct", "patch", "returned"} => consumed = InOrder
        /\ hpc = "raised" /\ herr = NotFound =>
              /\ Unresolved(InOrder[Len(consumed)])
              /\ \A n \in 1..(Len(consumed) - 1) : ~ Unresolved(InOrder[n])
        /\ (\E n \in 1..Len(InOrder) : Unresolved(InOrder[n])) =>
              hpc \in {"loop", "raised"}

\* a document with two different records that do not resolve: hydrate failed
\* on the one that comes first in the order and read no further
C26_Witness ==
    /\ last.op = "hydrate"
    /\ hpc = "raised"
    /\ herr = NotFound
    /\ Len(consumed) = 1
    /\ Len(InOrder) = 2
    /\ Unresolved(InOrder[1])
    /\ Unresolved(InOrder[2])
    /\ InOrder[1] # InOrder[2]

-----------------------------------------------------------------------------
(* The anchor of a hydrated view.                                           *)

AnchoredTypes == {"SystemContextView", "ContainerView", "ComponentView", "DynamicView"}

\* the anchor ids a record of type t may carry: of a software system, of a
\* container, of nothing, and for a dynamic view none at all
AnchorIdsOf(t) ==
    IF t = "DynamicView"
    THEN {"2", "3", DanglingId, "", None}
    ELSE {"2", "3", DanglingId}

\* records whose element views resolve, with anchors of every sort
AnchoredViewIOs(t) ==
    IF t \in AnchoredTypes
    THEN {ViewIORecord(t, KeyPool[1], a, ids, {}, None, ManualLayout) :
            a \in AnchorIdsOf(t), ids \in {{}, {"2"}}}
    ELSE OrderedViewIOs(t)

HydrateAnchored ==
    \/ \E view_io \in AnchoredViewIOs(TypeOrder[htype]) : HydrateRecord(view_io)
    \/ \E view_io \in AnchoredViewIOs(TypeOrder[htype]) :
          HydrateFilteredRecord(view_io)
    \/ HydrateEndOfList
    \/ HydrateConstruct
    \/ HydratePatch

NextAnchored == HydrateAnchored

SpecAnchored == InitHydrate /\ [][NextAnchored]_vars

\* hydrate failed on record n before a view was made of it
FailedAt(n) ==
    /\ n = Len(consumed)
    /\ hpc = "raised"
    /\ herr = NotFound
    /\ result = <<>>
    /\ Len(heap) = n - 1

\* a view was made of record n with this anchor, unless an element view or a
\* relationship view of the record does not resolve
AnchoredAt(n, anchor) ==
    IF DanglingElementView(consumed[n]) \/ DanglingRelationshipView(consumed[n])
    THEN FailedAt(n)
    ELSE /\ n <= Len(heap)
         /\ heap[n].type = consumed[n].type
         /\ heap[n].anchor = anchor
         /\ anchor \in model.elements
         /\ anchor.id = consumed[n].anchor_id

\* C27: hydrate resolves the anchor of a record before it reconstructs the
\* view: software_system_id of a system context view and of a container view
\* through get_software_system_with_id, container_id of a component view
\* through get_element; an anchor id that matches nothing makes hydrate fail
\* with no view made of the record and so none of its element views bound.
C27_AnchorResolvedFirst ==
    \A n \in 1..Len(consumed) :
        LET view_io == consumed[n] IN
        /\ view_io.type \in {"SystemContextView", "ContainerView"} =>
              LET found == get_software_system_with_id(model, view_io.anchor_id) IN
              IF found.raised # None THEN FailedAt(n)
              ELSE AnchoredAt(n, found.value) /\ found.value.kind = "SoftwareSystem"
        /\ view_io.type = "ComponentView" =>
              LET found == get_element(model, view_io.anchor_id) IN
              IF found.raised # None THEN FailedAt(n) ELSE AnchoredAt(n, found.value)

\* hydrate made a component view on a container, then failed on a component
\* view whose container_id matches nothing and whose element view resolves
C27_Witness ==
    /\ Len(consumed) = 2
    /\ Len(heap) = 1
    /\ heap[1].type = "ComponentView"
    /\ heap[1].anchor.kind = "Container"
    /\ consumed[2].type = "ComponentView"
    /\ consumed[2].anchor_id = DanglingId
    /\ consumed[2].element_views # {}
    /\ FailedAt(2)

\* C28: hydrate looks the element of a dynamic view up in the model if and
\* only if element_id of the record is non-empty: a record with an empty or
\* missing element_id yields a view with element None and no not-found
\* failure, any other a view with the element of that id, or a failure.
C28_DynamicElementOptional ==
    \A n \in 1..Len(consumed) :
        LET view_io == consumed[n] IN
        view_io.type = "DynamicView" =>
            IF view_io.anchor_id = "" \/ view_io.anchor_id = None
            THEN /\ n <= Len(heap)
                 /\ heap[n].type = "DynamicView"
                 /\ heap[n].anchor = NoElement
                 /\ (n = Len(consumed) => hpc # "raised")
            ELSE LET found == get_element(model, view_io.anchor_id) IN
                 IF found.raised # None THEN FailedAt(n) ELSE AnchoredAt(n, found.value)

\* hydrate returned a ViewSet with a dynamic view without element, made from
\* a record with an empty element_id and an element view
C28_Witness ==
    /\ hpc = "returned"
    /\ \E n \in 1..Len(consumed) :
          /\ consumed[n].type = "DynamicView"
          /\ consumed[n].anchor_id = ""
          /\ consumed[n].element_views # {}
          /\ heap[n].anchor = NoElement
          /\ n \in StoredViews(result)
    /\ \E n \in 1..Len(consumed) :
          /\ consumed[n].type = "DynamicView"
          /\ consumed[n].anchor_id = "2"
          /\ heap[n].anchor = SystemB

-----------------------------------------------------------------------------
(* Layout of filtered views.                                                *)

\* C29: copy_layout_information_from never copies layout into a filtered
\* view: a FilteredView of this ViewSet keeps its layout also when the source
\* holds a FilteredView under the same key, because a FilteredView is not an
\* instance of View.
C29_FilteredViewKeepsLayout ==
    hpc = "copied" =>
        \A dv \in StoredOfType(_views, "FilteredView") :
            heap[dv].layout = DefaultLayout

\* after the copy a filtered view has its own layout, though the source holds
\* a filtered view with its key and another layout
C29_Witness ==
    /\ hpc = "copied"
    /\ \E dv \in StoredOfType(_views, "FilteredView") :
          /\ heap[dv].layout = DefaultLayout
          /\ \E sv \in StoredOfType(result, "FilteredView") :
                /\ heap[sv].key = heap[dv].key
                /\ heap[sv].layout = ManualLayout

-----------------------------------------------------------------------------
(* hydrate and the model.                                                   *)

\* hydrate has been called and has not ended
Hydrating == hpc \in {"loop", "construct", "patch"}

\* C30: hydrate only reads the model it is given: every step of hydrate, the
\* one in which it returns and the one in which it raises included, leaves
\* the elements and relationships of the model and their ids as they were
\* when hydrate was called.
C30_HydrateReadsModelOnly ==
    [][ Hydrating => (model' = model /\ model = last.model) ]_vars

\* hydrate has made a view of one record and failed on the next, against a
\* model with elements, which is as it was at the call
C30_Witness ==
    /\ last.op = "hydrate"
    /\ hpc = "raised"
    /\ herr = NotFound
    /\ model = last.model
    /\ model.elements # {}
    /\ Len(heap) = 1
    /\ Len(consumed) = 2

====
